---- MODULE Spec2Model ----
(***************************************************************************)
(* The paginated fetch-and-aggregate loops of the DMI station scripts      *)
(* (precipitation.py, wind.py), the heating-consumption download           *)
(* (Combined_Heating_Data_2022-2025.py), the sunlight station script       *)
(* (sunlight.py), the offset probe of sunlight_check.py, the yearly        *)
(* collectors (dmi_sunlight_collection.py, dmi_wind_collection.py) and the *)
(* poll loop of producer-kafka.py.                                         *)
(*                                                                         *)
(* Python values are modelled as tagged records so that the dynamic type   *)
(* errors of the source (TypeError on int/str comparison, IndexError on a  *)
(* short coordinate list, AttributeError on a non-dict feature) can be     *)
(* decided: [t |-> "null" | "num" | "str", n |-> Int, s |-> Seq(Int)].     *)
(* A string is the sequence of its character codes.                        *)
(***************************************************************************)
EXTENDS Integers, Sequences, FiniteSets, Bags, TLC

VARIABLES
    script,          \* which script runs: "precip", "wind", "heating", "sunlight", "check",
                     \* "producer", "collect_sun", "collect_wind", "heating_all"
    station_info,    \* the defaultdict station_info
    stations_found,  \* stations_found / all_stations_found
    total_observations,
    exc,             \* exception that escaped the function, "" when none
    pc,              \* position in the running function
    pidx,            \* index into wind_parameters of the current parameter pass
    \* pagination
    univ,            \* the set of features the upstream may serve
    avail,           \* records the upstream still holds over all selectors
    loadable,        \* selectors for which the upstream may still hold records
    offset,          \* the loop variable offset
    total,           \* records the upstream holds for the current selector
    remaining,       \* features of the current page not yet iterated
    pagelen,         \* len(features) of the current page
    nreq,            \* requests issued for the current selector
    reqs,            \* offsets requested for the current selector, in order
    exit,            \* how the current selector's while loop ended
    report,          \* last terminal console message of a loop or of the details step
    rows,            \* stations_list, one row per station_info entry
    snapErr,         \* history: station_info when the last transport error was caught
    errPage,         \* history: page (1-based) on which it occurred, 0 if none
    \* history of the fold
    lastF,           \* the feature the last loop iteration processed
    lastOut,         \* its outcome: "folded", "skipped" or "raised"
    nfold,           \* loop iterations executed so far in the run
    gvals,           \* per station: bag of the values of its folded observations
    firstGeo,        \* per station: coordinates of its first feature with a full pair
    malformedSeen,   \* a malformed feature has been iterated in this run
    \* two folds of one multiset of observations in two orders
    obsA, obsB,      \* the observations not yet folded, in each order
    infoA, infoB,    \* station_info of each fold
    outA, outB,      \* outcomes of each fold's iterations, in order
    \* fetch_month_data
    hyear, hmonth, hpc, hoffset, hrecords,
    \* get_sunlight_stations_csv
    ret,             \* the value the function returned, "none" while it runs
    stotal,          \* per source: records the upstream holds for it
    sreqs,           \* per source: offsets requested, in order
    \* check_additional_stations, method 1
    cpc,             \* position: "for" (head of an offset loop), "method2"
    csrc,            \* 1: the bright_sunshine loop, 2: the mean_radiation loop
    cidx,            \* index into the offset list of the next iteration
    ctotal,          \* per loop: records the upstream holds for its parameter
    cstations,       \* per loop: sunshine_stations / radiation_stations
    creqs,           \* per loop: <<offset, len(features)>> of each answered request
    \* producer-kafka.py
    kpc,             \* position: "start", "fetch", "publish", "sleep", "raised"
    kfetch,          \* how the fetch of the current iteration ended
    kbody,           \* the JSON text of its response body, "" when there is none
    kdata,           \* data, the value fetch_data returned
    ksent,           \* calls of p.send in the current iteration
    kpayload,        \* the values passed to p.send in the current iteration
    klog,            \* history: <<kfetch, kbody, kpayload>> of the last iterations
    \* collect_sunshine_data / collect_wind_data
    col_pc,          \* position: "month", "features", "returned", "raised"
    col_station,     \* index of the station of the outer loop
    col_month,       \* month of the inner loop
    col_features,    \* features of the current response not yet iterated
    all_data,        \* the list all_data
    col_seen,        \* history: <<station, feature>> of every feature iterated
    col_avail,       \* features the upstream still holds
    \* fetch_all_years_combined
    hapc,            \* position: "month" (about to call fetch_month_data),
                     \* "fetching" (inside it), "returned", "raised"
    hcalls,          \* history: the (year, month) of each call of fetch_month_data
    all_records,     \* all_records of the running fetch_month_data
    all_combined_records,
    havail           \* records the upstream still holds

progVars == <<script, station_info, stations_found, total_observations, exc, pc, pidx>>

loopVars == <<univ, avail, loadable, offset, total, remaining, pagelen, nreq, reqs,
              exit, report, rows, snapErr, errPage>>

ghostVars == <<lastF, lastOut, nfold, gvals, firstGeo, malformedSeen>>

permVars == <<obsA, obsB, infoA, infoB, outA, outB>>

heatVars == <<hyear, hmonth, hpc, hoffset, hrecords>>

sunVars == <<ret, stotal, sreqs>>

chkVars == <<cpc, csrc, cidx, ctotal, cstations, creqs>>

kafVars == <<kpc, kfetch, kbody, kdata, ksent, kpayload, klog>>

colVars == <<col_pc, col_station, col_month, col_features, all_data, col_seen, col_avail>>

allVars == <<hapc, hcalls, all_records, all_combined_records, havail>>

vars == <<progVars, loopVars, ghostVars, permVars, heatVars, sunVars, chkVars, kafVars, colVars, allVars>>

-----------------------------------------------------------------------------
(* Python values *)

None == "None"

Null == [t |-> "null", n |-> 0, s |-> <<>>]

Num(i) == [t |-> "num", n |-> i, s |-> <<>>]

Str(cs) == [t |-> "str", n |-> 0, s |-> cs]

\* bool(v): None, 0 and "" are falsy
Truthy(v) == CASE v.t = "null" -> FALSE
               [] v.t = "num" -> v.n # 0
               [] OTHER -> v.s # <<>>

RECURSIVE LexLess(_, _)
\* str.__lt__: lexicographic comparison of the character sequences
LexLess(a, b) ==
    IF b = <<>> THEN FALSE
    ELSE IF a = <<>> THEN TRUE
    ELSE IF Head(a) # Head(b) THEN Head(a) < Head(b)
    ELSE LexLess(Tail(a), Tail(b))

\* a < b raises TypeError unless both are numbers or both are strings
Comparable(a, b) == a.t = b.t /\ a.t # "null"

PyLt(a, b) == IF a.t = "num" THEN a.n < b.n ELSE LexLess(a.s, b.s)

PyGt(a, b) == PyLt(b, a)

\* 'speed' in param_id
HasSpeed(p) == p \in {"mean_wind_speed", "max_wind_speed_3sec", "max_wind_speed_10min"}

-----------------------------------------------------------------------------
(* Program constants.  Offsets and page sizes are counted in units of      *)
(* 100000 records: limit 300000 is 3, max_offset 1000000 is 10.            *)

limit == 300000 \div 100000

max_offset == 1000000 \div 100000

wind_parameters == <<"mean_wind_speed", "max_wind_speed_3sec", "max_wind_speed_10min",
                     "mean_wind_dir", "mean_wind_dir_min0">>

-----------------------------------------------------------------------------
(* Bounds of the model *)

MaxRecords == 13

MaxFold == 3

MaxPerm == 3

MaxHeatPages == 3

MaxLoaded == 2

-----------------------------------------------------------------------------
(* Features of a page.  obj: the feature is a JSON object; sid: the value  *)
(* of properties.stationId, NoKey when properties or stationId is missing; *)
(* geo: geometry.coordinates, <<>> when geometry or coordinates is missing *)
(* or empty; frm: properties.from; val: properties.value.                  *)

Stations == {"s1", "s2"}

NoKey == ""

Feature(sid, geo, frm, val) == [obj |-> TRUE, sid |-> sid, geo |-> geo, frm |-> frm, val |-> val]

NonObject == [obj |-> FALSE, sid |-> NoKey, geo |-> <<>>, frm |-> Null, val |-> Null]

\* properties missing, empty or without stationId
NoStationId == Feature(NoKey, <<>>, Null, Num(3))

\* a feature the spec calls malformed
Malformed(f) ==
    \/ ~f.obj
    \/ f.sid = NoKey
    \/ Len(f.geo) = 1
    \/ f.val.t = "str"
    \/ f.frm.t = "num"

\* the features a well-behaved upstream serves for acc_precip
PrecipFeatures ==
    { Feature("s1", <<10, 55>>, Str(<<1>>), Num(3)),
      Feature("s1", <<>>, Str(<<2>>), Num(7)),
      Feature("s1", <<>>, Null, Null),
      Feature("s2", <<12, 56>>, Str(<<1, 0>>), Num(0)) }

\* the features a well-behaved upstream serves for the wind parameters
WindFeatures == { Feature("s1", <<10, 55>>, Str(<<1>>), Num(3)) }

\* all shapes of feature the fold distinguishes
RichFeatures ==
    { Feature("s1", g, Null, v) : g \in {<<>>, <<10, 55>>, <<12, 56>>, <<9>>},
                                  v \in {Null, Num(3)} }
    \cup { Feature("s1", <<>>, Null, v) : v \in {Num(0), Num(7), Str(<<97>>)} }
    \cup { Feature("s1", <<>>, Num(5), Null) }
    \cup { Feature("s2", <<>>, Null, Num(3)), Feature("s2", <<12, 56>>, Str(<<1>>), Null) }
    \cup { NonObject, NoStationId }

-----------------------------------------------------------------------------
(* The per-feature body of the loops *)

PrecipDefault ==
    [stationId |-> None, name |-> None, latitude |-> Null, longitude |-> Null,
     country |-> None, status |-> None,
     precipitation_observations |-> 0,
     first_precipitation_date |-> Null, last_precipitation_date |-> Null,
     min_precipitation |-> Null, max_precipitation |-> Null,
     total_precipitation_sample |-> 0]

WindDefault ==
    [stationId |-> None, name |-> None, latitude |-> Null, longitude |-> Null,
     country |-> None, status |-> None,
     wind_parameters |-> {},
     total_wind_observations |-> 0,
     obs |-> [p \in {wind_parameters[i] : i \in 1..Len(wind_parameters)} |-> 0],
     first_wind_date |-> Null, last_wind_date |-> Null,
     max_wind_speed_recorded |-> Null, min_wind_speed_recorded |-> Null]

\* station_info[station_id] on a defaultdict: a missing key is inserted
GetEntry(info, sid, default) ==
    IF sid \in DOMAIN info THEN info ELSE info @@ (sid :> default)

\* CoordStep that takes the coordinates of every feature that has a pair
CoordStepOverwrites(e, sid, coords) ==
    IF Len(coords) = 1 THEN [ok |-> FALSE, e |-> e]
    ELSE IF coords # <<>>
    THEN [ok |-> TRUE,
          e |-> [e EXCEPT !.stationId = sid, !.latitude = Num(coords[2]),
                          !.longitude = Num(coords[1])]]
    ELSE [ok |-> TRUE, e |-> [e EXCEPT !.stationId = sid]]

\* "Initialize or update station info": coords[1] is the latitude, coords[0]
\* the longitude; indexing a one-element list raises IndexError (ok = FALSE)
CoordStep(e, sid, coords) ==
    IF e.stationId = None
    THEN IF coords # <<>> /\ Len(coords) < 2
         THEN [ok |-> FALSE, e |-> e]
         ELSE [ok |-> TRUE,
               e |-> [e EXCEPT !.stationId = sid,
                               !.latitude = IF coords # <<>> THEN Num(coords[2]) ELSE Null,
                               !.longitude = IF coords # <<>> THEN Num(coords[1]) ELSE Null]]
    ELSE IF coords # <<>> /\ e.latitude = Null
         THEN IF Len(coords) < 2
              THEN [ok |-> FALSE, e |-> e]
              ELSE [ok |-> TRUE,
                    e |-> [e EXCEPT !.latitude = Num(coords[2]),
                                    !.longitude = Num(coords[1])]]
         ELSE [ok |-> TRUE, e |-> e]

\* DateStep that orders the timestamps as numbers: a shorter string is smaller
DateStepNumeric(e, frm, fk, lk) ==
    IF ~Truthy(frm) THEN [ok |-> TRUE, e |-> e]
    ELSE IF Truthy(e[fk]) /\ ~Comparable(frm, e[fk]) THEN [ok |-> FALSE, e |-> e]
    ELSE LET Below(a, b) == Len(a.s) < Len(b.s) \/ (Len(a.s) = Len(b.s) /\ PyLt(a, b))
             e1 == IF ~Truthy(e[fk]) \/ Below(frm, e[fk]) THEN [e EXCEPT ![fk] = frm] ELSE e
         IN  [ok |-> TRUE,
              e |-> IF ~Truthy(e1[lk]) \/ Below(e1[lk], frm)
                    THEN [e1 EXCEPT ![lk] = frm] ELSE e1]

\* DateStep that takes every date as the first date
DateStepLastWins(e, frm, fk, lk) ==
    IF ~Truthy(frm) THEN [ok |-> TRUE, e |-> e]
    ELSE [ok |-> TRUE,
          e |-> IF ~Truthy(e[lk]) \/ (Comparable(frm, e[lk]) /\ PyGt(frm, e[lk]))
                THEN [e EXCEPT ![fk] = frm, ![lk] = frm] ELSE [e EXCEPT ![fk] = frm]]

\* first/last date bookkeeping; a comparison of a str with a number raises
\* TypeError (ok = FALSE)
DateStep(e, frm, fk, lk) ==
    IF ~Truthy(frm) THEN [ok |-> TRUE, e |-> e]
    ELSE IF Truthy(e[fk]) /\ ~Comparable(frm, e[fk]) THEN [ok |-> FALSE, e |-> e]
    ELSE LET e1 == IF ~Truthy(e[fk]) \/ PyLt(frm, e[fk]) THEN [e EXCEPT ![fk] = frm] ELSE e
         IN  IF Truthy(e1[lk]) /\ ~Comparable(frm, e1[lk]) THEN [ok |-> FALSE, e |-> e1]
             ELSE [ok |-> TRUE,
                   e |-> IF ~Truthy(e1[lk]) \/ PyGt(frm, e1[lk])
                         THEN [e1 EXCEPT ![lk] = frm] ELSE e1]

\* PrecipValueStep that sets min only while it is None
PrecipValueStepMinOnce(e, val) ==
    IF val = Null THEN [ok |-> TRUE, e |-> e]
    ELSE IF val.t # "num" THEN [ok |-> FALSE, e |-> e]
    ELSE LET e1 == [e EXCEPT !.total_precipitation_sample = @ + val.n]
             e2 == IF e1.min_precipitation = Null
                   THEN [e1 EXCEPT !.min_precipitation = val] ELSE e1
         IN  [ok |-> TRUE,
              e |-> IF e2.max_precipitation = Null \/ PyGt(val, e2.max_precipitation)
                    THEN [e2 EXCEPT !.max_precipitation = val] ELSE e2]

\* precipitation statistics: total += value raises TypeError for a str
PrecipValueStep(e, val) ==
    IF val = Null THEN [ok |-> TRUE, e |-> e]
    ELSE IF val.t # "num" THEN [ok |-> FALSE, e |-> e]
    ELSE LET e1 == [e EXCEPT !.total_precipitation_sample = @ + val.n]
             e2 == IF e1.min_precipitation = Null \/ PyLt(val, e1.min_precipitation)
                   THEN [e1 EXCEPT !.min_precipitation = val] ELSE e1
         IN  [ok |-> TRUE,
              e |-> IF e2.max_precipitation = Null \/ PyGt(val, e2.max_precipitation)
                    THEN [e2 EXCEPT !.max_precipitation = val] ELSE e2]

\* WindValueStep that takes a null value for 0
WindValueStepNullIsZero(e, param, val) ==
    IF ~HasSpeed(param) THEN [ok |-> TRUE, e |-> e]
    ELSE LET v == IF val = Null THEN Num(0) ELSE val
             e1 == IF e.max_wind_speed_recorded = Null \/ v.n > e.max_wind_speed_recorded.n
                   THEN [e EXCEPT !.max_wind_speed_recorded = v] ELSE e
         IN  [ok |-> TRUE,
              e |-> IF e1.min_wind_speed_recorded = Null
                       \/ v.n < e1.min_wind_speed_recorded.n
                    THEN [e1 EXCEPT !.min_wind_speed_recorded = v] ELSE e1]

\* WindValueStep that compares the value of every parameter
WindValueStepAnyParam(e, param, val) ==
    IF val = Null THEN [ok |-> TRUE, e |-> e]
    ELSE IF e.max_wind_speed_recorded # Null /\ ~Comparable(val, e.max_wind_speed_recorded)
    THEN [ok |-> FALSE, e |-> e]
    ELSE LET e1 == IF e.max_wind_speed_recorded = Null \/ PyGt(val, e.max_wind_speed_recorded)
                   THEN [e EXCEPT !.max_wind_speed_recorded = val] ELSE e
         IN  IF e1.min_wind_speed_recorded # Null /\ ~Comparable(val, e1.min_wind_speed_recorded)
             THEN [ok |-> FALSE, e |-> e1]
             ELSE [ok |-> TRUE,
                   e |-> IF e1.min_wind_speed_recorded = Null
                            \/ PyLt(val, e1.min_wind_speed_recorded)
                         THEN [e1 EXCEPT !.min_wind_speed_recorded = val] ELSE e1]

\* wind speed statistics, only for speed parameters
WindValueStep(e, param, val) ==
    IF val = Null \/ ~HasSpeed(param) THEN [ok |-> TRUE, e |-> e]
    ELSE IF e.max_wind_speed_recorded # Null /\ ~Comparable(val, e.max_wind_speed_recorded)
    THEN [ok |-> FALSE, e |-> e]
    ELSE LET e1 == IF e.max_wind_speed_recorded = Null \/ PyGt(val, e.max_wind_speed_recorded)
                   THEN [e EXCEPT !.max_wind_speed_recorded = val] ELSE e
         IN  IF e1.min_wind_speed_recorded # Null /\ ~Comparable(val, e1.min_wind_speed_recorded)
             THEN [ok |-> FALSE, e |-> e1]
             ELSE [ok |-> TRUE,
                   e |-> IF e1.min_wind_speed_recorded = Null
                            \/ PyLt(val, e1.min_wind_speed_recorded)
                         THEN [e1 EXCEPT !.min_wind_speed_recorded = val] ELSE e1]

Result(info, found, tobs, out, x) ==
    [info |-> info, found |-> found, tobs |-> tobs, out |-> out, exc |-> x]

\* one iteration of "for feature in features" in get_precipitation_stations_csv:
\* the inner try covers the coordinate step only, the date and value steps
\* run outside it
FoldPrecip(info, found, tobs, f) ==
    IF ~f.obj THEN Result(info, found, tobs, "raised", "AttributeError")
    ELSE IF f.sid = NoKey THEN Result(info, found, tobs, "skipped", "")
    ELSE LET found1 == found \cup {f.sid}
             info1 == GetEntry(info, f.sid, PrecipDefault)
             c == CoordStep(info1[f.sid], f.sid, f.geo)
             d == DateStep(c.e, f.frm, "first_precipitation_date", "last_precipitation_date")
             v == PrecipValueStep(d.e, f.val)
         IN  IF ~c.ok THEN Result(info1, found1, tobs, "skipped", "")
             ELSE IF ~d.ok
             THEN Result([info1 EXCEPT ![f.sid] = d.e], found1, tobs, "raised", "TypeError")
             ELSE IF ~v.ok
             THEN Result([info1 EXCEPT ![f.sid] = v.e], found1, tobs, "raised", "TypeError")
             ELSE Result([info1 EXCEPT ![f.sid] =
                             [v.e EXCEPT !.precipitation_observations = @ + 1]],
                         found1, tobs + 1, "folded", "")

\* one iteration of "for feature in features" in get_wind_stations_csv: the
\* inner try covers the whole body and catches KeyError, TypeError, IndexError
FoldWind(info, found, tobs, param, f) ==
    IF ~f.obj THEN Result(info, found, tobs, "raised", "AttributeError")
    ELSE IF f.sid = NoKey THEN Result(info, found, tobs, "skipped", "")
    ELSE LET found1 == found \cup {f.sid}
             info1 == GetEntry(info, f.sid, WindDefault)
             c == CoordStep(info1[f.sid], f.sid, f.geo)
             e1 == [c.e EXCEPT !.wind_parameters = @ \cup {param}]
             d == DateStep(e1, f.frm, "first_wind_date", "last_wind_date")
             v == WindValueStep(d.e, param, f.val)
         IN  IF ~c.ok THEN Result(info1, found1, tobs, "skipped", "")
             ELSE IF ~d.ok
             THEN Result([info1 EXCEPT ![f.sid] = d.e], found1, tobs, "skipped", "")
             ELSE IF ~v.ok
             THEN Result([info1 EXCEPT ![f.sid] = v.e], found1, tobs, "skipped", "")
             ELSE Result([info1 EXCEPT ![f.sid] =
                             [v.e EXCEPT !.obs[param] = @ + 1,
                                         !.total_wind_observations = @ + 1]],
                         found1, tobs + 1, "folded", "")

-----------------------------------------------------------------------------
(* get_precipitation_stations_csv and get_wind_stations_csv.  Positions:   *)
(* "for" (head of the loop over wind_parameters; the precipitation script  *)
(* has the one selector acc_precip), "while" (head of the pagination       *)
(* loop), "features" (inside the loop over the page), "loop_end" (the      *)
(* summary printed after the while loop), "details" (station metadata      *)
(* request), "export" (building stations_list), "done", "raised".          *)

NumSelectors == IF script = "wind" THEN Len(wind_parameters) ELSE 1

\* parameterId of the current selector
ParamId == IF script = "wind" THEN wind_parameters[pidx] ELSE "acc_precip"

EmptyInfo == [s \in {} |-> 0]

NoFeature == [obj |-> FALSE, sid |-> "-", geo |-> <<>>, frm |-> Null, val |-> Null]

Min2(a, b) == IF a < b THEN a ELSE b

\* len(features) of the page the upstream serves at an offset
PageSize(tot, off) == IF tot > off THEN Min2(limit, tot - off) ELSE 0

Prog0 ==
    /\ station_info = EmptyInfo
    /\ stations_found = {}
    /\ total_observations = 0
    /\ exc = ""
    /\ pidx = 0

Loop0 ==
    /\ univ = {} /\ avail = 0 /\ loadable = 0 /\ offset = 0 /\ total = 0
    /\ remaining = 0 /\ pagelen = 0 /\ nreq = 0 /\ reqs = <<>> /\ exit = "fetching"
    /\ report = "none" /\ rows = EmptyInfo /\ snapErr = EmptyInfo /\ errPage = 0

Ghost0 ==
    /\ lastF = NoFeature
    /\ lastOut = "none"
    /\ nfold = 0
    /\ gvals = [s \in Stations |-> EmptyBag]
    /\ firstGeo = [s \in Stations |-> <<>>]
    /\ malformedSeen = FALSE

Perm0 ==
    /\ obsA = <<>> /\ obsB = <<>> /\ infoA = EmptyInfo /\ infoB = EmptyInfo
    /\ outA = <<>> /\ outB = <<>>

Heating0 ==
    /\ hyear = 0 /\ hmonth = 0 /\ hpc = "off" /\ hoffset = 0 /\ hrecords = 0

Sun0 ==
    /\ ret = "none" /\ stotal = <<0, 0>> /\ sreqs = <<<<>>, <<>>>>

Check0 ==
    /\ cpc = "off" /\ csrc = 0 /\ cidx = 0 /\ ctotal = <<0, 0>>
    /\ cstations = <<{}, {}>> /\ creqs = <<<<>>, <<>>>>

Kafka0 ==
    /\ kpc = "off" /\ kfetch = "none" /\ kbody = "" /\ kdata = None /\ ksent = 0
    /\ kpayload = <<>> /\ klog = <<>>

Collect0 ==
    /\ col_pc = "off" /\ col_station = 0 /\ col_month = 0 /\ col_features = <<>>
    /\ all_data = <<>> /\ col_seen = <<>> /\ col_avail = 0

Combined0 ==
    /\ hapc = "off" /\ hcalls = <<>> /\ all_records = <<>>
    /\ all_combined_records = <<>> /\ havail = 0

Init ==
    /\ script \in {"precip", "wind"}
    /\ Prog0
    /\ pc = "for"
    /\ univ = IF script = "wind" THEN WindFeatures ELSE PrecipFeatures
    /\ avail = MaxRecords
    /\ loadable = MaxLoaded
    /\ offset = 0 /\ total = 0 /\ remaining = 0 /\ pagelen = 0 /\ nreq = 0
    /\ reqs = <<>> /\ exit = "fetching" /\ report = "none" /\ rows = EmptyInfo
    /\ snapErr = EmptyInfo /\ errPage = 0
    /\ Ghost0
    /\ Perm0
    /\ Heating0
    /\ Sun0
    /\ Check0
    /\ Kafka0
    /\ Collect0
    /\ Combined0

\* "for param_id ... in wind_parameters.items()" / lines 37-40 of precipitation.py:
\* offset = 0 for the next selector.  The upstream holds n records for it.
BeginSelector ==
    /\ pc = "for"
    /\ pidx < NumSelectors
    /\ pidx' = pidx + 1
    /\ offset' = 0
    /\ \E n \in 0..(IF loadable > 0 THEN avail ELSE 0) :
          /\ total' = n
          /\ avail' = avail - n
          /\ loadable' = IF n > 0 THEN loadable - 1 ELSE loadable
    /\ nreq' = 0
    /\ reqs' = <<>>
    /\ exit' = "fetching"
    /\ report' = "none"
    /\ pc' = "while"
    /\ UNCHANGED <<script, station_info, stations_found, total_observations, exc>>
    /\ UNCHANGED <<univ, remaining, pagelen, rows, snapErr, errPage>>
    /\ UNCHANGED <<ghostVars, permVars, heatVars, sunVars, chkVars, kafVars, colVars, allVars>>

\* RequestFails with a handler that discards what was accumulated
RequestFailsDiscards ==
    /\ pc = "while"
    /\ offset < max_offset
    /\ nreq' = nreq + 1
    /\ reqs' = Append(reqs, offset)
    /\ exit' = "error"
    /\ report' = "error"
    /\ pc' = "loop_end"
    /\ snapErr' = station_info
    /\ errPage' = nreq + 1
    /\ station_info' = EmptyInfo
    /\ UNCHANGED <<script, stations_found, total_observations, exc, pidx>>
    /\ UNCHANGED <<univ, avail, loadable, offset, total, remaining, pagelen, rows>>
    /\ UNCHANGED <<ghostVars, permVars, heatVars, sunVars, chkVars, kafVars, colVars, allVars>>

\* requests.get raises RequestException: the handler prints and breaks
RequestFails ==
    /\ pc = "while"
    /\ offset < max_offset
    /\ nreq' = nreq + 1
    /\ reqs' = Append(reqs, offset)
    /\ exit' = "error"
    /\ report' = "error"
    /\ pc' = "loop_end"
    /\ snapErr' = station_info
    /\ errPage' = nreq + 1
    /\ UNCHANGED <<script, station_info, stations_found, total_observations, exc, pidx>>
    /\ UNCHANGED <<univ, avail, loadable, offset, total, remaining, pagelen, rows>>
    /\ UNCHANGED <<ghostVars, permVars, heatVars, sunVars, chkVars, kafVars, colVars, allVars>>

\* RequestPage without the test of the while loop
RequestPageNoCeiling ==
    /\ pc = "while"
    /\ nreq' = nreq + 1
    /\ reqs' = Append(reqs, offset)
    /\ pagelen' = PageSize(total, offset)
    /\ remaining' = pagelen'
    /\ IF pagelen' = 0
       THEN exit' = "empty" /\ report' = "no_more" /\ pc' = "loop_end"
       ELSE exit' = exit /\ report' = report /\ pc' = "features"
    /\ UNCHANGED <<script, station_info, stations_found, total_observations, exc, pidx>>
    /\ UNCHANGED <<univ, avail, loadable, offset, total, rows, snapErr, errPage>>
    /\ UNCHANGED <<ghostVars, permVars, heatVars, sunVars, chkVars, kafVars, colVars, allVars>>

\* requests.get answers with a page; an empty page breaks
RequestPage ==
    /\ pc = "while"
    /\ offset < max_offset
    /\ nreq' = nreq + 1
    /\ reqs' = Append(reqs, offset)
    /\ pagelen' = PageSize(total, offset)
    /\ remaining' = pagelen'
    /\ IF pagelen' = 0
       THEN exit' = "empty" /\ report' = "no_more" /\ pc' = "loop_end"
       ELSE exit' = exit /\ report' = report /\ pc' = "features"
    /\ UNCHANGED <<script, station_info, stations_found, total_observations, exc, pidx>>
    /\ UNCHANGED <<univ, avail, loadable, offset, total, rows, snapErr, errPage>>
    /\ UNCHANGED <<ghostVars, permVars, heatVars, sunVars, chkVars, kafVars, colVars, allVars>>

\* CeilingExit that drops the summaries on the way out
CeilingExitDrops ==
    /\ pc = "while"
    /\ offset >= max_offset
    /\ exit' = "ceiling"
    /\ pc' = "loop_end"
    /\ station_info' = EmptyInfo
    /\ UNCHANGED <<script, stations_found, total_observations, exc, pidx>>
    /\ UNCHANGED <<univ, avail, loadable, offset, total, remaining, pagelen, nreq,
                   reqs, report, rows, snapErr, errPage>>
    /\ UNCHANGED <<ghostVars, permVars, heatVars, sunVars, chkVars, kafVars, colVars, allVars>>

\* "while offset < max_offset" is false: the loop ends, nothing is printed
CeilingExit ==
    /\ pc = "while"
    /\ offset >= max_offset
    /\ exit' = "ceiling"
    /\ pc' = "loop_end"
    /\ UNCHANGED <<script, station_info, stations_found, total_observations, exc, pidx>>
    /\ UNCHANGED <<univ, avail, loadable, offset, total, remaining, pagelen, nreq,
                   reqs, report, rows, snapErr, errPage>>
    /\ UNCHANGED <<ghostVars, permVars, heatVars, sunVars, chkVars, kafVars, colVars, allVars>>

\* Fold that leaves an observation without value out of total_observations
FoldDropsGlobalCount(scr, info, found, tobs, param, f) ==
    LET r == IF scr = "wind" THEN FoldWind(info, found, tobs, param, f)
             ELSE FoldPrecip(info, found, tobs, f)
    IN  [r EXCEPT !.tobs = IF f.val = Null THEN tobs ELSE r.tobs]

\* the loop body of the running script
Fold(scr, info, found, tobs, param, f) ==
    IF scr = "wind" THEN FoldWind(info, found, tobs, param, f)
    ELSE FoldPrecip(info, found, tobs, f)

\* the history kept of one iteration over feature f with result r
Remember(f, r) ==
    /\ lastF' = f
    /\ lastOut' = r.out
    /\ nfold' = nfold + 1
    /\ gvals' = IF r.out = "folded"
                THEN [gvals EXCEPT ![f.sid] = @ (+) SetToBag({f.val})]
                ELSE gvals
    /\ firstGeo' = IF f.obj /\ f.sid \in Stations /\ Len(f.geo) = 2
                      /\ firstGeo[f.sid] = <<>>
                   THEN [firstGeo EXCEPT ![f.sid] = f.geo]
                   ELSE firstGeo
    /\ malformedSeen' = (malformedSeen \/ Malformed(f))

\* one iteration of the loop over the page's features
FoldFeature ==
    /\ pc = "features"
    /\ remaining > 0
    /\ \E f \in univ :
          LET r == Fold(script, station_info, stations_found, total_observations,
                        ParamId, f) IN
          /\ station_info' = r.info
          /\ stations_found' = r.found
          /\ total_observations' = r.tobs
          /\ exc' = r.exc
          /\ pc' = IF r.out = "raised" THEN "raised" ELSE pc
          /\ remaining' = IF r.out = "raised" THEN remaining ELSE remaining - 1
          /\ Remember(f, r)
    /\ UNCHANGED <<script, pidx>>
    /\ UNCHANGED <<univ, avail, loadable, offset, total, pagelen, nreq, reqs, exit,
                   report, rows, snapErr, errPage>>
    /\ UNCHANGED <<permVars, heatVars, sunVars, chkVars, kafVars, colVars, allVars>>

\* EndPage without the break on a short page
EndPageNoShortBreak ==
    /\ pc = "features"
    /\ remaining = 0
    /\ offset' = offset + limit
    /\ pc' = "while"
    /\ UNCHANGED <<script, station_info, stations_found, total_observations, exc, pidx>>
    /\ UNCHANGED <<univ, avail, loadable, total, remaining, pagelen, nreq, reqs, rows,
                   snapErr, errPage, exit, report>>
    /\ UNCHANGED <<ghostVars, permVars, heatVars, sunVars, chkVars, kafVars, colVars, allVars>>

\* after the page: offset += 300000, and a page shorter than the limit breaks
EndPage ==
    /\ pc = "features"
    /\ remaining = 0
    /\ offset' = offset + limit
    /\ IF pagelen < limit
       THEN exit' = "short" /\ report' = "less_than_limit" /\ pc' = "loop_end"
       ELSE exit' = exit /\ report' = report /\ pc' = "while"
    /\ UNCHANGED <<script, station_info, stations_found, total_observations, exc, pidx>>
    /\ UNCHANGED <<univ, avail, loadable, total, remaining, pagelen, nreq, reqs, rows,
                   snapErr, errPage>>
    /\ UNCHANGED <<ghostVars, permVars, heatVars, sunVars, chkVars, kafVars, colVars, allVars>>

\* LoopEnd that resumes the pagination of a selector that ended on a short page
LoopEndResumes ==
    /\ pc = "loop_end"
    /\ pc' = IF exit = "short" /\ offset < max_offset THEN "while"
             ELSE IF pidx < NumSelectors THEN "for" ELSE "details"
    /\ UNCHANGED <<script, station_info, stations_found, total_observations, exc, pidx>>
    /\ UNCHANGED <<loopVars, ghostVars, permVars, heatVars, sunVars, chkVars, kafVars, colVars, allVars>>

\* LoopEnd that gives up the remaining selectors after a transport error
LoopEndStopsOnError ==
    /\ pc = "loop_end"
    /\ pc' = IF pidx < NumSelectors /\ exit # "error" THEN "for" ELSE "details"
    /\ UNCHANGED <<script, station_info, stations_found, total_observations, exc, pidx>>
    /\ UNCHANGED <<loopVars, ghostVars, permVars, heatVars, sunVars, chkVars, kafVars, colVars, allVars>>

\* the summary printed after the while loop; then the next selector, if any
LoopEnd ==
    /\ pc = "loop_end"
    /\ pc' = IF pidx < NumSelectors THEN "for" ELSE "details"
    /\ UNCHANGED <<script, station_info, stations_found, total_observations, exc, pidx>>
    /\ UNCHANGED <<loopVars, ghostVars, permVars, heatVars, sunVars, chkVars, kafVars, colVars, allVars>>

\* StationDetails whose handler gives up the summaries when the request fails
StationDetailsFailureDrops ==
    /\ pc = "details"
    /\ \E ok \in BOOLEAN, listed \in {{}, {"s1"}} :
          /\ station_info' =
                IF ok
                THEN [s \in DOMAIN station_info |->
                        IF s \in listed
                        THEN [station_info[s] EXCEPT !.name = "Name", !.country = "DNK",
                                                     !.status = "Active"]
                        ELSE station_info[s]]
                ELSE EmptyInfo
          /\ report' = IF ok THEN "details" ELSE "details_warning"
    /\ pc' = "export"
    /\ UNCHANGED <<script, stations_found, total_observations, exc, pidx>>
    /\ UNCHANGED <<univ, avail, loadable, offset, total, remaining, pagelen, nreq, reqs,
                   exit, rows, snapErr, errPage>>
    /\ UNCHANGED <<ghostVars, permVars, heatVars, sunVars, chkVars, kafVars, colVars, allVars>>

\* the station metadata request: on success the stations it lists that are
\* in station_info get name, country and status; a RequestException is
\* caught and only printed
StationDetails ==
    /\ pc = "details"
    /\ \E ok \in BOOLEAN, listed \in {{}, {"s1"}} :
          /\ station_info' =
                IF ok
                THEN [s \in DOMAIN station_info |->
                        IF s \in listed
                        THEN [station_info[s] EXCEPT !.name = "Name", !.country = "DNK",
                                                     !.status = "Active"]
                        ELSE station_info[s]]
                ELSE station_info
          /\ report' = IF ok THEN "details" ELSE "details_warning"
    /\ pc' = "export"
    /\ UNCHANGED <<script, stations_found, total_observations, exc, pidx>>
    /\ UNCHANGED <<univ, avail, loadable, offset, total, remaining, pagelen, nreq, reqs,
                   exit, rows, snapErr, errPage>>
    /\ UNCHANGED <<ghostVars, permVars, heatVars, sunVars, chkVars, kafVars, colVars, allVars>>

\* info.get(key, default): the default is used only when the key is absent
DictGet(e, key, default) == IF key \in DOMAIN e THEN e[key] ELSE default

PrecipRow(info) ==
    [station_id |-> info.stationId,
     name |-> DictGet(info, "name", "Unknown"),
     country |-> DictGet(info, "country", "Unknown"),
     status |-> DictGet(info, "status", "Unknown"),
     latitude |-> info.latitude,
     longitude |-> info.longitude,
     precipitation_observations |-> info.precipitation_observations,
     first_precipitation_date |-> info.first_precipitation_date,
     last_precipitation_date |-> info.last_precipitation_date,
     min_precipitation_mm |-> info.min_precipitation,
     max_precipitation_mm |-> info.max_precipitation,
     \* the quotient total / observations as <<numerator, denominator>>
     avg_precipitation_mm |->
        IF info.precipitation_observations > 0 /\ info.total_precipitation_sample > 0
        THEN <<info.total_precipitation_sample, info.precipitation_observations>>
        ELSE <<>>,
     total_precipitation_sample_mm |->
        IF info.total_precipitation_sample # 0
        THEN Num(info.total_precipitation_sample) ELSE Null]

WindRow(info) ==
    [station_id |-> info.stationId,
     name |-> DictGet(info, "name", "Unknown"),
     country |-> DictGet(info, "country", "Unknown"),
     status |-> DictGet(info, "status", "Unknown"),
     latitude |-> info.latitude,
     longitude |-> info.longitude,
     wind_parameters_measured |-> info.wind_parameters,
     parameter_count |-> Cardinality(info.wind_parameters),
     total_wind_observations |-> info.total_wind_observations,
     observations |-> info.obs,
     first_wind_date |-> info.first_wind_date,
     last_wind_date |-> info.last_wind_date,
     max_wind_speed_recorded_ms |-> info.max_wind_speed_recorded,
     min_wind_speed_recorded_ms |-> info.min_wind_speed_recorded]

\* Export that leaves out the stations without coordinates
ExportOnlyLocated ==
    /\ pc = "export"
    /\ rows' = [s \in { x \in DOMAIN station_info : station_info[x].latitude # Null } |->
                  IF script = "wind" THEN WindRow(station_info[s])
                  ELSE PrecipRow(station_info[s])]
    /\ pc' = "done"
    /\ UNCHANGED <<script, station_info, stations_found, total_observations, exc, pidx>>
    /\ UNCHANGED <<univ, avail, loadable, offset, total, remaining, pagelen, nreq, reqs,
                   exit, report, snapErr, errPage>>
    /\ UNCHANGED <<ghostVars, permVars, heatVars, sunVars, chkVars, kafVars, colVars, allVars>>

\* "for station_id, info in station_info.items(): stations_list.append(...)"
Export ==
    /\ pc = "export"
    /\ rows' = [s \in DOMAIN station_info |->
                  IF script = "wind" THEN WindRow(station_info[s])
                  ELSE PrecipRow(station_info[s])]
    /\ pc' = "done"
    /\ UNCHANGED <<script, station_info, stations_found, total_observations, exc, pidx>>
    /\ UNCHANGED <<univ, avail, loadable, offset, total, remaining, pagelen, nreq, reqs,
                   exit, report, snapErr, errPage>>
    /\ UNCHANGED <<ghostVars, permVars, heatVars, sunVars, chkVars, kafVars, colVars, allVars>>

Next ==
    \/ BeginSelector
    \/ RequestFails
    \/ RequestPage
    \/ CeilingExit
    \/ FoldFeature
    \/ EndPage
    \/ LoopEnd
    \/ StationDetails
    \/ Export

\* both scripts, paginating over a well-formed upstream
Spec == Init /\ [][Next]_vars

-----------------------------------------------------------------------------
(* The loop body as a function of (station_info, parameter, feature): it   *)
(* reads neither the offset nor the page, so the fold over a run is the    *)
(* fold over the features in the order the pages and passes deliver them.  *)
(* Here the upstream may deliver every shape of feature, and in the wind   *)
(* script the passes follow the order of wind_parameters.                  *)

FoldInit ==
    /\ script \in {"precip", "wind"}
    /\ Prog0
    /\ pc = "features"
    /\ Loop0
    /\ Ghost0
    /\ Perm0
    /\ Heating0
    /\ Sun0
    /\ Check0
    /\ Kafka0
    /\ Collect0
    /\ Combined0

\* the next feature of the run, of the current or of a later parameter pass
FoldStep ==
    /\ pc = "features"
    /\ nfold < MaxFold
    /\ \E i \in 1..NumSelectors, f \in RichFeatures :
          /\ i >= pidx
          /\ pidx' = i
          /\ LET r == Fold(script, station_info, stations_found, total_observations,
                           IF script = "wind" THEN wind_parameters[i] ELSE "acc_precip",
                           f) IN
             /\ station_info' = r.info
             /\ stations_found' = r.found
             /\ total_observations' = r.tobs
             /\ exc' = r.exc
             /\ pc' = IF r.out = "raised" THEN "raised" ELSE pc
             /\ Remember(f, r)
    /\ UNCHANGED <<script, loopVars, permVars, heatVars, sunVars, chkVars, kafVars, colVars, allVars>>

FoldNext == FoldStep

FoldSpec == FoldInit /\ [][FoldNext]_vars

-----------------------------------------------------------------------------
(* The same observations folded in two orders, A and B.  An observation is *)
(* a feature with the parameter of the pass that delivers it.              *)

PermFeatures ==
    { Feature("s1", <<10, 55>>, Str(<<1>>), Num(3)),
      Feature("s1", <<12, 56>>, Str(<<2>>), Num(7)),
      Feature("s1", <<>>, Str(<<1, 0>>), Null),
      Feature("s2", <<>>, Null, Num(0)),
      Feature("s1", <<9>>, Null, Num(3)),
      Feature("s1", <<>>, Null, Str(<<97>>)) }

PermParams(scr) ==
    IF scr = "wind" THEN {"mean_wind_speed", "mean_wind_dir"} ELSE {"acc_precip"}

\* the wind script folds the features of two passes
WindPermFeatures == { f \in PermFeatures : f.sid = "s1" /\ Len(f.geo) # 1 }

Observations(scr) ==
    { [param |-> p, f |-> f] :
         p \in PermParams(scr),
         f \in IF scr = "wind" THEN WindPermFeatures ELSE PermFeatures }

Rearrangements(n) == { p \in [1..n -> 1..n] : \A i, j \in 1..n : p[i] = p[j] => i = j }

PermInit ==
    /\ script \in {"precip", "wind"}
    /\ Prog0
    /\ pc = "perm"
    /\ Loop0
    /\ Ghost0
    /\ \E n \in 1..MaxPerm :
          /\ obsA \in [1..n -> Observations(script)]
          /\ \E p \in Rearrangements(n) : obsB = [i \in 1..n |-> obsA[p[i]]]
    /\ infoA = EmptyInfo /\ infoB = EmptyInfo
    /\ outA = <<>> /\ outB = <<>>
    /\ Heating0
    /\ Sun0
    /\ Check0
    /\ Kafka0
    /\ Collect0
    /\ Combined0

\* a fold stops at the end of its observations or when an exception escapes
Stopped(obs, out) ==
    \/ Len(out) = Len(obs)
    \/ (out # <<>> /\ out[Len(out)] = "raised")

FoldNextOf(obs, info, out) ==
    Fold(script, info, {}, 0, obs[Len(out) + 1].param, obs[Len(out) + 1].f)

\* each fold that has not stopped folds its next observation
PermStep ==
    /\ pc = "perm"
    /\ ~Stopped(obsA, outA) \/ ~Stopped(obsB, outB)
    /\ IF Stopped(obsA, outA) THEN UNCHANGED <<infoA, outA>>
       ELSE LET r == FoldNextOf(obsA, infoA, outA) IN
            infoA' = r.info /\ outA' = Append(outA, r.out)
    /\ IF Stopped(obsB, outB) THEN UNCHANGED <<infoB, outB>>
       ELSE LET r == FoldNextOf(obsB, infoB, outB) IN
            infoB' = r.info /\ outB' = Append(outB, r.out)
    /\ UNCHANGED <<obsA, obsB, progVars, loopVars, ghostVars, heatVars, sunVars, chkVars, kafVars, colVars, allVars>>

PermNext == PermStep

PermSpec == PermInit /\ [][PermNext]_vars

-----------------------------------------------------------------------------
(* fetch_month_data.  Page sizes and offsets are counted in units of 10000 *)
(* records: limit 20000 is 2.  The loop has no ceiling, so offset and      *)
(* len(all_records) are unbounded; the model follows them exactly up to    *)
(* MaxHeatPages pages.  Beyond, len(all_records) is kept at that value     *)
(* and the offset alternates between the last two page offsets, so that    *)
(* every request still is a step.  Positions: "while" (about to request),  *)
(* "returned".                                                             *)

hlimit == 20000 \div 10000

START_YEAR == 2022

END_YEAR == 2025

\* the (year, month) pairs fetch_all_years_combined iterates over
Months ==
    { <<y, m>> : y \in START_YEAR..END_YEAR, m \in 1..12 } \ { <<2022, m>> : m \in 1..8 }

HeatCap == MaxHeatPages * hlimit

\* offset += limit
NextHeatOffset(o) == IF o >= HeatCap + hlimit THEN HeatCap ELSE o + hlimit

HeatInit ==
    /\ script = "heating"
    /\ Prog0
    /\ pc = "off"
    /\ Loop0
    /\ Ghost0
    /\ Perm0
    /\ \E ym \in Months : hyear = ym[1] /\ hmonth = ym[2]
    /\ hpc = "while"
    /\ hoffset = 0
    /\ hrecords = 0
    /\ Sun0
    /\ Check0
    /\ Kafka0
    /\ Collect0
    /\ Combined0

\* requests.get, raise_for_status or response.json raises: caught, break
HeatRequestFails ==
    /\ hpc = "while"
    /\ hpc' = "returned"
    /\ UNCHANGED <<hyear, hmonth, hoffset, hrecords>>
    /\ UNCHANGED <<progVars, loopVars, ghostVars, permVars, sunVars, chkVars, kafVars, colVars, allVars>>

\* a page of n records: empty breaks, short extends and breaks, full
\* extends, advances the offset and loops
HeatRequestPage ==
    /\ hpc = "while"
    /\ \E n \in 0..hlimit :
          /\ hrecords' = Min2(hrecords + n, HeatCap)
          /\ hoffset' = IF n = hlimit THEN NextHeatOffset(hoffset) ELSE hoffset
          /\ hpc' = IF n = hlimit THEN "while" ELSE "returned"
    /\ UNCHANGED <<hyear, hmonth>>
    /\ UNCHANGED <<progVars, loopVars, ghostVars, permVars, sunVars, chkVars, kafVars, colVars, allVars>>

HeatNext ==
    \/ HeatRequestFails
    \/ HeatRequestPage

\* the interpreter always executes the next statement of the running loop
HeatSpec == HeatInit /\ [][HeatNext]_vars /\ WF_vars(HeatNext)

-----------------------------------------------------------------------------
(* get_sunlight_stations_csv: one request per source (bright_sunshine, then *)
(* mean_radiation) with 'limit': 300000 and no offset, a loop over the      *)
(* features of the answer outside any inner try, then the station details   *)
(* and the rows.  Positions: "sunshine" and "radiation" (about to request   *)
(* the source), "features" (inside the loop over the answer of source       *)
(* pidx), "details", "export", "done" (returned), "raised".                 *)

MaxSunRecords == 4

SunDefault ==
    [stationId |-> None, name |-> None, latitude |-> Null, longitude |-> Null,
     measures_sunshine |-> FALSE, measures_radiation |-> FALSE,
     sunshine_observations |-> 0, radiation_observations |-> 0,
     first_sunshine_date |-> Null, last_sunshine_date |-> Null,
     first_radiation_date |-> Null, last_radiation_date |-> Null]

\* the features the upstream serves for the two sunlight parameters
SunFeatures ==
    { Feature("s1", <<10, 55>>, Str(<<1>>), Null),
      Feature("s1", <<12, 56>>, Str(<<2>>), Null),
      Feature("s2", <<12, 56>>, Null, Null),
      Feature("s2", <<>>, Null, Null) }

\* feature['properties'], feature['geometry']['coordinates'],
\* props['stationId'], coords[1]: the exception of the first subscript that
\* fails, "" when none does
SunSubscripts(f) ==
    IF ~f.obj THEN "TypeError"
    ELSE IF f.geo = <<>> THEN "KeyError"
    ELSE IF f.sid = NoKey THEN "KeyError"
    ELSE IF Len(f.geo) < 2 THEN "IndexError"
    ELSE ""

\* one iteration of the loop over the bright_sunshine features: update()
\* writes the coordinates of every feature
FoldSunshine(info, f) ==
    LET x == SunSubscripts(f) IN
    IF x = "IndexError" THEN Result(GetEntry(info, f.sid, SunDefault), {}, 0, "raised", x)
    ELSE IF x # "" THEN Result(info, {}, 0, "raised", x)
    ELSE LET info1 == GetEntry(info, f.sid, SunDefault)
             e1 == [info1[f.sid] EXCEPT !.stationId = f.sid,
                                        !.latitude = Num(f.geo[2]),
                                        !.longitude = Num(f.geo[1]),
                                        !.measures_sunshine = TRUE]
             d == DateStep(e1, f.frm, "first_sunshine_date", "last_sunshine_date")
         IN  IF ~d.ok
             THEN Result([info1 EXCEPT ![f.sid] = d.e], {}, 0, "raised", "TypeError")
             ELSE Result([info1 EXCEPT ![f.sid] =
                             [d.e EXCEPT !.sunshine_observations = @ + 1]],
                         {}, 0, "folded", "")

\* one iteration of the loop over the mean_radiation features: the
\* coordinates are written only for a station_id not yet in station_info
FoldRadiation(info, f) ==
    LET x == SunSubscripts(f) IN
    IF x \notin {"", "IndexError"} THEN Result(info, {}, 0, "raised", x)
    ELSE IF x = "IndexError" /\ f.sid \notin DOMAIN info
    THEN Result(GetEntry(info, f.sid, SunDefault), {}, 0, "raised", x)
    ELSE LET info1 == GetEntry(info, f.sid, SunDefault)
             e0 == IF f.sid \in DOMAIN info THEN info1[f.sid]
                   ELSE [info1[f.sid] EXCEPT !.stationId = f.sid,
                                             !.latitude = Num(f.geo[2]),
                                             !.longitude = Num(f.geo[1])]
             e1 == [e0 EXCEPT !.measures_radiation = TRUE]
             d == DateStep(e1, f.frm, "first_radiation_date", "last_radiation_date")
         IN  IF ~d.ok
             THEN Result([info1 EXCEPT ![f.sid] = d.e], {}, 0, "raised", "TypeError")
             ELSE Result([info1 EXCEPT ![f.sid] =
                             [d.e EXCEPT !.radiation_observations = @ + 1]],
                         {}, 0, "folded", "")

SunInit ==
    /\ script = "sunlight"
    /\ Prog0
    /\ pc = "sunshine"
    /\ univ = SunFeatures
    /\ avail = 0 /\ loadable = 0 /\ offset = 0 /\ total = 0 /\ remaining = 0
    /\ pagelen = 0 /\ nreq = 0 /\ reqs = <<>> /\ exit = "fetching" /\ report = "none"
    /\ rows = EmptyInfo /\ snapErr = EmptyInfo /\ errPage = 0
    /\ Ghost0
    /\ Perm0
    /\ Heating0
    /\ Sun0
    /\ Check0
    /\ Kafka0
    /\ Collect0
    /\ Combined0

\* the source the function is about to request
SunSource == IF pc = "sunshine" THEN 1 ELSE 2

\* requests.get or raise_for_status raises RequestException: the handler
\* prints and returns False
SunRequestFails ==
    /\ pc \in {"sunshine", "radiation"}
    /\ sreqs' = [sreqs EXCEPT ![SunSource] = Append(@, 0)]
    /\ snapErr' = station_info
    /\ errPage' = 1
    /\ exit' = "error"
    /\ ret' = "False"
    /\ pc' = "done"
    /\ UNCHANGED <<script, station_info, stations_found, total_observations, exc, pidx>>
    /\ UNCHANGED <<univ, avail, loadable, offset, total, remaining, pagelen, nreq, reqs,
                   report, rows>>
    /\ UNCHANGED <<stotal, ghostVars, permVars, heatVars, chkVars, kafVars, colVars, allVars>>

\* the upstream, holding n records of the source, answers the one request:
\* at most 'limit' features
SunRequestPage ==
    /\ pc \in {"sunshine", "radiation"}
    /\ \E n \in 0..MaxSunRecords :
          /\ stotal' = [stotal EXCEPT ![SunSource] = n]
          /\ total' = n
          /\ pagelen' = Min2(limit, n)
          /\ remaining' = Min2(limit, n)
    /\ sreqs' = [sreqs EXCEPT ![SunSource] = Append(@, 0)]
    /\ nreq' = 1
    /\ pidx' = SunSource
    /\ pc' = "features"
    /\ UNCHANGED <<script, station_info, stations_found, total_observations, exc>>
    /\ UNCHANGED <<univ, avail, loadable, offset, reqs, exit, report, rows, snapErr,
                   errPage>>
    /\ UNCHANGED <<ret, ghostVars, permVars, heatVars, chkVars, kafVars, colVars, allVars>>

\* one iteration of the loop over the features of the answer
SunFoldFeature ==
    /\ script = "sunlight"
    /\ pc = "features"
    /\ remaining > 0
    /\ \E f \in univ :
          LET r == IF pidx = 1 THEN FoldSunshine(station_info, f)
                   ELSE FoldRadiation(station_info, f) IN
          /\ station_info' = r.info
          /\ exc' = r.exc
          /\ pc' = IF r.out = "raised" THEN "raised" ELSE pc
          /\ remaining' = IF r.out = "raised" THEN remaining ELSE remaining - 1
          /\ Remember(f, r)
    /\ UNCHANGED <<script, stations_found, total_observations, pidx>>
    /\ UNCHANGED <<univ, avail, loadable, offset, total, pagelen, nreq, reqs, exit,
                   report, rows, snapErr, errPage>>
    /\ UNCHANGED <<permVars, heatVars, sunVars, chkVars, kafVars, colVars, allVars>>

\* the loop over the answer is over: the count is printed and the function
\* goes on to the next step, whatever the size of the answer
SunEndSource ==
    /\ script = "sunlight"
    /\ pc = "features"
    /\ remaining = 0
    /\ pc' = IF pidx = 1 THEN "radiation" ELSE "details"
    /\ UNCHANGED <<script, station_info, stations_found, total_observations, exc, pidx>>
    /\ UNCHANGED <<loopVars, ghostVars, permVars, heatVars, sunVars, chkVars, kafVars, colVars, allVars>>

\* a record of the station collection: name, country, status, validFrom and
\* validTo are stored in the entry of a station that is in station_info
SunDetailsOf(e) ==
    [k \in DOMAIN e \cup {"country", "status", "validFrom", "validTo"} |->
        CASE k = "name" -> "Name"
          [] k = "country" -> "DNK"
          [] k = "status" -> "Active"
          [] k \in {"validFrom", "validTo"} -> None
          [] OTHER -> e[k]]

\* Step 3: a RequestException is caught and only printed
SunStationDetails ==
    /\ script = "sunlight"
    /\ pc = "details"
    /\ \E ok \in BOOLEAN, listed \in {{}, {"s1"}} :
          station_info' =
             IF ok
             THEN [s \in DOMAIN station_info |->
                     IF s \in listed THEN SunDetailsOf(station_info[s])
                     ELSE station_info[s]]
             ELSE station_info
    /\ pc' = "export"
    /\ UNCHANGED <<script, stations_found, total_observations, exc, pidx>>
    /\ UNCHANGED <<loopVars, ghostVars, permVars, heatVars, sunVars, chkVars, kafVars, colVars, allVars>>

SunRow(info) ==
    [station_id |-> info.stationId,
     name |-> DictGet(info, "name", "Unknown"),
     country |-> DictGet(info, "country", "Unknown"),
     status |-> DictGet(info, "status", "Unknown"),
     latitude |-> info.latitude,
     longitude |-> info.longitude,
     measures_sunshine |-> info.measures_sunshine,
     measures_radiation |-> info.measures_radiation,
     sunshine_observations |-> info.sunshine_observations,
     radiation_observations |-> info.radiation_observations,
     first_sunshine_date |-> info.first_sunshine_date,
     last_sunshine_date |-> info.last_sunshine_date,
     first_radiation_date |-> info.first_radiation_date,
     last_radiation_date |-> info.last_radiation_date,
     measurement_types |->
        (IF info.measures_sunshine THEN <<"bright_sunshine">> ELSE <<>>)
        \o (IF info.measures_radiation THEN <<"mean_radiation">> ELSE <<>>)]

\* Step 4: one row per entry of station_info; the function returns True
SunExport ==
    /\ script = "sunlight"
    /\ pc = "export"
    /\ rows' = [s \in DOMAIN station_info |-> SunRow(station_info[s])]
    /\ ret' = "True"
    /\ pc' = "done"
    /\ UNCHANGED <<script, station_info, stations_found, total_observations, exc, pidx>>
    /\ UNCHANGED <<univ, avail, loadable, offset, total, remaining, pagelen, nreq, reqs,
                   exit, report, snapErr, errPage>>
    /\ UNCHANGED <<stotal, sreqs, ghostVars, permVars, heatVars, chkVars, kafVars, colVars, allVars>>

SunNext ==
    \/ SunRequestFails
    \/ SunRequestPage
    \/ SunFoldFeature
    \/ SunEndSource
    \/ SunStationDetails
    \/ SunExport

SunSpec == SunInit /\ [][SunNext]_vars

-----------------------------------------------------------------------------
(* check_additional_stations, method 1: for each of bright_sunshine and     *)
(* mean_radiation a loop over the offsets 0, 300000, 600000 that collects   *)
(* the station ids of each answer.  Positions: "for" (head of the offset    *)
(* loop of parameter csrc), "method2" (both loops are over).                *)

MaxCheckRecords == 7

\* for offset in [0, 300000, 600000]
check_offsets == <<0, 300000 \div 100000, 600000 \div 100000>>

CheckInit ==
    /\ script = "check"
    /\ Prog0
    /\ pc = "off"
    /\ Loop0
    /\ Ghost0
    /\ Perm0
    /\ Heating0
    /\ Sun0
    /\ cpc = "for" /\ csrc = 1 /\ cidx = 1
    /\ ctotal \in [1..2 -> 0..MaxCheckRecords]
    /\ cstations = <<{}, {}>>
    /\ creqs = <<<<>>, <<>>>>
    /\ Kafka0
    /\ Collect0
    /\ Combined0

\* break, or the end of the offset list: on to the second loop, or to method 2
CheckLeaveLoop ==
    /\ cpc' = IF csrc = 1 THEN "for" ELSE "method2"
    /\ csrc' = IF csrc = 1 THEN 2 ELSE csrc
    /\ cidx' = 1

\* the request, raise_for_status or the loop over the features raises: the
\* handler prints and breaks
CheckRequestFails ==
    /\ cpc = "for"
    /\ CheckLeaveLoop
    /\ UNCHANGED <<ctotal, cstations, creqs>>
    /\ UNCHANGED <<progVars, loopVars, ghostVars, permVars, heatVars, sunVars, kafVars, colVars, allVars>>

\* an answer of n features whose station ids are ids: they are added to the
\* set; only an empty answer breaks
CheckRequestPage ==
    /\ cpc = "for"
    /\ LET n == PageSize(ctotal[csrc], check_offsets[cidx]) IN
       /\ \E ids \in SUBSET Stations :
             /\ (n = 0) = (ids = {})
             /\ Cardinality(ids) <= n
             /\ cstations' = [cstations EXCEPT ![csrc] = @ \cup ids]
       /\ creqs' = [creqs EXCEPT ![csrc] = Append(@, <<check_offsets[cidx], n>>)]
       /\ IF n = 0 \/ cidx = Len(check_offsets)
          THEN CheckLeaveLoop
          ELSE cidx' = cidx + 1 /\ UNCHANGED <<cpc, csrc>>
    /\ UNCHANGED ctotal
    /\ UNCHANGED <<progVars, loopVars, ghostVars, permVars, heatVars, sunVars, kafVars, colVars, allVars>>

CheckNext ==
    \/ CheckRequestFails
    \/ CheckRequestPage

CheckSpec == CheckInit /\ [][CheckNext]_vars

-----------------------------------------------------------------------------
(* producer-kafka.py: main makes the producer and then polls forever.  An   *)
(* iteration is fetch_data, the publish when data is not None, and the      *)
(* sleep.  Positions: "start" (before make_producer), "fetch", "publish",   *)
(* "sleep", "raised" (an exception left main).  A response body is named by *)
(* the kind of JSON text it is.                                             *)

MaxLog == 2

\* the bodies the API may answer with
KafkaBodies == {"null", "object", "array", "number", "invalid"}

\* r.json(): the JSON text null is the Python value None; a value of another
\* kind is named by its kind
ParseJson(b) == IF b = "null" THEN None ELSE b

KafkaInit ==
    /\ script = "producer"
    /\ Prog0
    /\ pc = "off"
    /\ Loop0
    /\ Ghost0
    /\ Perm0
    /\ Heating0
    /\ Sun0
    /\ Check0
    /\ kpc = "start" /\ kfetch = "none" /\ kbody = "" /\ kdata = None /\ ksent = 0
    /\ kpayload = <<>> /\ klog = <<>>
    /\ Collect0
    /\ Combined0

\* p = make_producer(): KafkaProducer connects, or raises out of main
KMakeProducer ==
    /\ kpc = "start"
    /\ kpc' \in {"fetch", "raised"}
    /\ UNCHANGED <<kfetch, kbody, kdata, ksent, kpayload, klog>>
    /\ UNCHANGED <<progVars, loopVars, ghostVars, permVars, heatVars, sunVars, chkVars,
                   colVars, allVars>>

\* data = fetch_data(): the parsed body of a 200 response, None after another
\* status or an exception of requests.get or r.json(); then "if data is not None"
KFetch ==
    /\ kpc = "fetch"
    /\ \E resp \in {"exception", "non200", "200"}, b \in KafkaBodies :
          /\ kfetch' = IF resp = "200" /\ b = "invalid" THEN "exception" ELSE resp
          /\ kbody' = IF resp = "exception" THEN "" ELSE b
          /\ kdata' = IF resp = "200" /\ b # "invalid" THEN ParseJson(b) ELSE None
    /\ ksent' = 0
    /\ kpayload' = <<>>
    /\ kpc' = IF kdata' # None THEN "publish" ELSE "sleep"
    /\ UNCHANGED klog
    /\ UNCHANGED <<progVars, loopVars, ghostVars, permVars, heatVars, sunVars, chkVars,
                   colVars, allVars>>

\* KPublish whose failing send leaves main
KPublishRaiseEscapes ==
    /\ kpc = "publish"
    /\ \E sent \in BOOLEAN :
          /\ kpayload' = Append(kpayload, <<kdata, IF sent THEN "sent" ELSE "send_raised">>)
          /\ kpc' = IF sent THEN "sleep" ELSE "raised"
    /\ ksent' = ksent + 1
    /\ UNCHANGED <<kfetch, kbody, kdata, klog>>
    /\ UNCHANGED <<progVars, loopVars, ghostVars, permVars, heatVars, sunVars, chkVars,
                   colVars, allVars>>

\* p.send(TOPIC, data); p.flush(); print(... data.get ...): the exception of
\* send or flush, or of data.get on a value that is no object, is caught
KPublish ==
    /\ kpc = "publish"
    /\ \E sent \in BOOLEAN :
          kpayload' = Append(kpayload,
                             <<kdata, IF ~sent THEN "send_raised"
                                      ELSE IF kdata # "object" THEN "print_raised"
                                      ELSE "sent">>)
    /\ ksent' = ksent + 1
    /\ kpc' = "sleep"
    /\ UNCHANGED <<kfetch, kbody, kdata, klog>>
    /\ UNCHANGED <<progVars, loopVars, ghostVars, permVars, heatVars, sunVars, chkVars,
                   colVars, allVars>>

\* the last MaxLog elements of a sequence
LastOf(s) == IF Len(s) <= MaxLog THEN s ELSE SubSeq(s, Len(s) - MaxLog + 1, Len(s))

\* time.sleep(POLL_SECONDS), and back to the head of "while True"
KSleep ==
    /\ kpc = "sleep"
    /\ klog' = LastOf(Append(klog, <<kfetch, kbody, kpayload>>))
    /\ kpc' = "fetch"
    /\ UNCHANGED <<kfetch, kbody, kdata, ksent, kpayload>>
    /\ UNCHANGED <<progVars, loopVars, ghostVars, permVars, heatVars, sunVars, chkVars,
                   colVars, allVars>>

KafkaNext ==
    \/ KMakeProducer
    \/ KFetch
    \/ KPublish
    \/ KSleep

KafkaSpec == KafkaInit /\ [][KafkaNext]_vars

-----------------------------------------------------------------------------
(* dmi_sunlight_collection.py and dmi_wind_collection.py: collect_*_data    *)
(* asks for every station of its table and every month of the year and      *)
(* keeps one row per feature whose value is not None.  One step is one      *)
(* iteration of the month loop.  A feature is [props, from, val]; props is  *)
(* FALSE for a feature without "properties".                                *)

MaxCollectFeatures == 2

NumColStations == 2

\* the head of SUNSHINE_STATIONS and of WIND_STATIONS
ColStations(sc) ==
    IF sc = "collect_sun"
    THEN <<<<"06019", "Silstrup">>, <<"06031", "Tylstrup">>, <<"06041", "Skagen Fyr">>>>
    ELSE <<<<"06154", "Brandelev">>, <<"06068", "Isenvad">>, <<"06082", "Borris">>>>

\* the column of the measurement
ColColumn(sc) == IF sc = "collect_sun" THEN "bright_sunshine" ELSE "mean_wind_speed"

\* range(1, 13)
ColMonths == 1..12

ColValues == {Null, Num(0), Num(3)}

\* the dict appended for a feature of station number st
ColRow(sc, st, f) ==
    [timeObserved |-> f.from,
     stationId |-> ColStations(sc)[st][1],
     stationName |-> ColStations(sc)[st][2],
     column |-> ColColumn(sc),
     value |-> f.val]

\* CollectFeatures that keeps a value by its truth
RECURSIVE CollectFeaturesTruthy(_, _, _, _, _)
CollectFeaturesTruthy(acc, sc, st, feats, i) ==
    IF i > Len(feats) THEN [data |-> acc, raised |-> FALSE]
    ELSE IF ~feats[i].props THEN [data |-> acc, raised |-> TRUE]
    ELSE CollectFeaturesTruthy(IF Truthy(feats[i].val)
                               THEN Append(acc, ColRow(sc, st, feats[i])) ELSE acc,
                               sc, st, feats, i + 1)

\* for feature in features: props = feature["properties"] (KeyError without
\* them); value = props.get("value"); if value is not None: all_data.append
RECURSIVE CollectFeatures(_, _, _, _, _)
CollectFeatures(acc, sc, st, feats, i) ==
    IF i > Len(feats) THEN [data |-> acc, raised |-> FALSE]
    ELSE IF ~feats[i].props THEN [data |-> acc, raised |-> TRUE]
    ELSE CollectFeatures(IF feats[i].val # Null
                         THEN Append(acc, ColRow(sc, st, feats[i])) ELSE acc,
                         sc, st, feats, i + 1)

CollectInit ==
    /\ script \in {"collect_sun", "collect_wind"}
    /\ Prog0
    /\ pc = "off"
    /\ Loop0
    /\ Ghost0
    /\ Perm0
    /\ Heating0
    /\ Sun0
    /\ Check0
    /\ Kafka0
    /\ col_pc = "month" /\ col_station = 1 /\ col_month = 1 /\ col_features = <<>>
    /\ all_data = <<>> /\ col_seen = <<>> /\ col_avail = MaxCollectFeatures
    /\ Combined0

\* stands for a feature without "properties"
NoProperties == [t |-> "none", n |-> 0, s |-> <<>>]

\* the answers fetch_station_month can return for a month: [] after a status
\* other than 200 or an exception, the features of the body after a 200
ColResponses(m, left) ==
    {<<>>} \cup
    UNION { { [i \in 1..n |-> [props |-> ks[i] # NoProperties, from |-> <<m, i>>,
                               val |-> IF ks[i] = NoProperties THEN Null ELSE ks[i]]] :
                  ks \in [1..n -> ColValues \cup {NoProperties}] } :
            n \in 0..left }

\* one iteration of "for month in range(1, 13)", and the step of the
\* station loop after the last month
CollectMonth ==
    /\ col_pc = "month"
    /\ \E feats \in ColResponses(col_month, col_avail) :
          LET r == CollectFeatures(all_data, script, col_station, feats, 1) IN
          /\ col_features' = feats
          /\ col_avail' = col_avail - Len(feats)
          /\ col_seen' = col_seen \o [i \in 1..Len(feats) |-> <<col_station, feats[i]>>]
          /\ all_data' = r.data
          /\ IF r.raised
             THEN col_pc' = "raised" /\ UNCHANGED <<col_station, col_month>>
             ELSE IF col_month + 1 \in ColMonths
             THEN col_pc' = "month" /\ col_month' = col_month + 1 /\ UNCHANGED col_station
             ELSE IF col_station < NumColStations
             THEN col_pc' = "month" /\ col_month' = 1 /\ col_station' = col_station + 1
             ELSE col_pc' = "return" /\ UNCHANGED <<col_station, col_month>>
    /\ UNCHANGED <<progVars, loopVars, ghostVars, permVars, heatVars, sunVars, chkVars,
                   kafVars, allVars>>

\* return all_data
CollectReturn ==
    /\ col_pc = "return"
    /\ col_pc' = "done"
    /\ UNCHANGED <<col_station, col_month, col_features, all_data, col_seen, col_avail>>
    /\ UNCHANGED <<progVars, loopVars, ghostVars, permVars, heatVars, sunVars, chkVars,
                   kafVars, allVars>>

CollectNext ==
    \/ CollectMonth
    \/ CollectReturn

CollectSpec == CollectInit /\ [][CollectNext]_vars

-----------------------------------------------------------------------------
(* Combined_Heating_Data_2022-2025.py: fetch_all_years_combined calls       *)
(* fetch_month_data for every month of its range, saves each month that     *)
(* has records and extends the combined list by them.  Positions: "for"     *)
(* (before the call of a month), "save" (the month has records), "return",  *)
(* "done", "raised" (save_to_csv raised).  hpc tells how the last call's    *)
(* loop stopped, hoffset its last offset.  A record is <<year, month, i>>,  *)
(* the i-th record the upstream holds for the month.                        *)

MaxCombinedRecords == 2

\* the records fetch_month_data returns when its pages held n records
MonthRecords(y, m, n) == [i \in 1..n |-> <<y, m, i>>]

\* 9 if year == 2022 else 1
StartMonth(y) == IF y = 2022 THEN 9 ELSE 1

CombinedInit ==
    /\ script = "heating_all"
    /\ Prog0
    /\ pc = "off"
    /\ Loop0
    /\ Ghost0
    /\ Perm0
    /\ hyear = START_YEAR /\ hmonth = StartMonth(START_YEAR)
    /\ hpc = "none" /\ hoffset = 0 /\ hrecords = 0
    /\ Sun0
    /\ Check0
    /\ Kafka0
    /\ Collect0
    /\ hapc = "for" /\ hcalls = <<>> /\ all_records = <<>>
    /\ all_combined_records = <<>> /\ havail = MaxCombinedRecords

\* the next iteration of the two for loops, or the end of the outer one
NextMonth(y, m) ==
    IF m + 1 \in StartMonth(y)..12 THEN [pc |-> "for", y |-> y, m |-> m + 1]
    ELSE IF y + 1 \in START_YEAR..END_YEAR
    THEN [pc |-> "for", y |-> y + 1, m |-> StartMonth(y + 1)]
    ELSE [pc |-> "return", y |-> y, m |-> m]

\* the ways the loop of fetch_month_data can stop after n records: on an
\* empty page or an error when the pages so far were full, on a short page
\* or an error after it (none: a short page breaks)
HeatEndings(n) == IF n % hlimit = 0 THEN {"empty", "error"} ELSE {"short"}

\* AllFetchMonth that leaves the loops when the call of a month failed
AllFetchMonthStopsOnError ==
    /\ hapc = "for"
    /\ \E n \in 0..havail : \E e \in HeatEndings(n) :
          /\ all_records' = MonthRecords(hyear, hmonth, n)
          /\ hrecords' = n
          /\ hoffset' = (n \div hlimit) * hlimit
          /\ hpc' = e
          /\ havail' = havail - n
          /\ hcalls' = Append(hcalls, <<hyear, hmonth, n>>)
          /\ IF e = "error"
             THEN hapc' = "return" /\ UNCHANGED <<hyear, hmonth>>
             ELSE IF n > 0
             THEN hapc' = "save" /\ UNCHANGED <<hyear, hmonth>>
             ELSE /\ hapc' = NextMonth(hyear, hmonth).pc
                  /\ hyear' = NextMonth(hyear, hmonth).y
                  /\ hmonth' = NextMonth(hyear, hmonth).m
    /\ UNCHANGED all_combined_records
    /\ UNCHANGED <<progVars, loopVars, ghostVars, permVars, sunVars, chkVars, kafVars,
                   colVars>>

\* month_records = fetch_month_data(year, month): the pages before the loop
\* stopped; "if month_records:" is false for a month without records, and
\* the loop goes on
AllFetchMonth ==
    /\ hapc = "for"
    /\ \E n \in 0..havail : \E e \in HeatEndings(n) :
          /\ all_records' = MonthRecords(hyear, hmonth, n)
          /\ hrecords' = n
          /\ hoffset' = (n \div hlimit) * hlimit
          /\ hpc' = e
          /\ havail' = havail - n
          /\ hcalls' = Append(hcalls, <<hyear, hmonth, n>>)
          /\ IF n > 0
             THEN hapc' = "save" /\ UNCHANGED <<hyear, hmonth>>
             ELSE /\ hapc' = NextMonth(hyear, hmonth).pc
                  /\ hyear' = NextMonth(hyear, hmonth).y
                  /\ hmonth' = NextMonth(hyear, hmonth).m
    /\ UNCHANGED all_combined_records
    /\ UNCHANGED <<progVars, loopVars, ghostVars, permVars, sunVars, chkVars, kafVars,
                   colVars>>

\* save_to_csv(month_records, month_filename), which may raise (the file
\* cannot be opened, a record has a key the first one has not), then
\* all_combined_records.extend(month_records)
AllSaveExtend ==
    /\ hapc = "save"
    /\ \E saved \in BOOLEAN :
          IF saved
          THEN /\ all_combined_records' = all_combined_records \o all_records
               /\ hapc' = NextMonth(hyear, hmonth).pc
               /\ hyear' = NextMonth(hyear, hmonth).y
               /\ hmonth' = NextMonth(hyear, hmonth).m
          ELSE /\ hapc' = "raised"
               /\ UNCHANGED <<all_combined_records, hyear, hmonth>>
    /\ UNCHANGED <<hpc, hoffset, hrecords, hcalls, all_records, havail>>
    /\ UNCHANGED <<progVars, loopVars, ghostVars, permVars, sunVars, chkVars, kafVars,
                   colVars>>

\* return all_combined_records
AllReturn ==
    /\ hapc = "return"
    /\ hapc' = "done"
    /\ UNCHANGED <<hcalls, all_records, all_combined_records, havail>>
    /\ UNCHANGED <<progVars, loopVars, ghostVars, permVars, heatVars, sunVars, chkVars,
                   kafVars, colVars>>

CombinedNext ==
    \/ AllFetchMonth
    \/ AllSaveExtend
    \/ AllReturn

CombinedSpec == CombinedInit /\ [][CombinedNext]_vars

-----------------------------------------------------------------------------
(* Properties *)

\* the termination states of the pagination of one selector
Outcome ==
    CASE exit \in {"short", "empty"} -> "DONE"
      [] exit \in {"error", "ceiling"} -> "ABORTED"
      [] OTHER -> "FETCHING"

\* full pages the upstream holds for the current selector before its short page
FullPages == total \div limit

\* the observation counter of station s that the current selector increments
SelectorCount(s) ==
    IF s \notin DOMAIN station_info THEN 0
    ELSE IF script = "wind" THEN station_info[s].obs[ParamId]
    ELSE station_info[s].precipitation_observations

\* the observation counter of station s over the whole run
RunCount(info, s) ==
    IF script = "wind" THEN info[s].total_wind_observations
    ELSE info[s].precipitation_observations

RECURSIVE SumSelectorCount(_)
SumSelectorCount(S) ==
    IF S = {} THEN 0
    ELSE LET s == CHOOSE x \in S : TRUE IN SelectorCount(s) + SumSelectorCount(S \ {s})

\* C1 as stated: an upstream holding n-1 full pages and then a short page is
\* asked for exactly n pages and the loop ends in DONE, for every n >= 1.
C1_AllPagesRequested ==
    (pc = "loop_end" /\ exit # "error")
        => (nreq = FullPages + 1 /\ Outcome = "DONE")

\* C1 (amended): the same for every n whose last page lies below the ceiling,
\* (n-1) * limit < max_offset.
C1_PagesBelowCeiling ==
    (pc = "loop_end" /\ exit # "error" /\ FullPages * limit < max_offset)
        => (nreq = FullPages + 1 /\ Outcome = "DONE")

C1_Witness ==
    /\ pc = "loop_end"
    /\ FullPages = 3
    /\ total = 3 * limit + 1
    /\ nreq = 4
    /\ exit = "short"


\* C2: a transport error on page k > 1 ends the selector's pagination in
\* ABORTED with station_info as pages 1..k-1 left it, no exception escapes,
\* and the rows of the result carry those summaries (in the wind script later
\* parameter passes may only add to them).
C2_ErrorKeepsSummaries ==
    /\ (pc = "loop_end" /\ exit = "error" /\ errPage > 1)
          => (Outcome = "ABORTED" /\ station_info = snapErr /\ exc = "" /\ nreq = errPage)
    /\ (pc = "done" /\ errPage > 1)
          => /\ exc = ""
             /\ DOMAIN snapErr \subseteq DOMAIN rows
             /\ \A s \in DOMAIN snapErr :
                   /\ rows[s].latitude = snapErr[s].latitude
                   /\ rows[s].longitude = snapErr[s].longitude
                   /\ IF script = "wind"
                      THEN /\ snapErr[s].wind_parameters \subseteq
                                 rows[s].wind_parameters_measured
                           /\ \A p \in DOMAIN snapErr[s].obs :
                                 rows[s].observations[p] >= snapErr[s].obs[p]
                           /\ rows[s].total_wind_observations >=
                                 snapErr[s].total_wind_observations
                      ELSE rows[s] = PrecipRow([snapErr[s] EXCEPT
                                                   !.name = rows[s].name,
                                                   !.country = rows[s].country,
                                                   !.status = rows[s].status])

C2_Witness ==
    /\ pc = "done"
    /\ errPage = 2
    /\ snapErr # EmptyInfo
    /\ script = "precip"
    /\ rows["s1"].precipitation_observations = limit

\* every page the loop can request from the current selector is full
AllPagesFull ==
    \A o \in 0..(max_offset - 1) : o % limit = 0 => PageSize(total, o) = limit

\* C3: when every page is full the loop stops once offset has reached
\* max_offset, in ABORTED, and every observation of the pages fetched is in
\* the summaries.
C3_CeilingStop ==
    (pc = "loop_end" /\ exit # "error" /\ AllPagesFull)
        => /\ exit = "ceiling"
           /\ Outcome = "ABORTED"
           /\ offset >= max_offset
           /\ offset = nreq * limit
           /\ SumSelectorCount(DOMAIN station_info) = nreq * limit
           /\ \A s \in DOMAIN station_info :
                 RunCount(station_info, s) = BagCardinality(gvals[s])

C3_Witness ==
    /\ pc = "loop_end"
    /\ exit = "ceiling"
    /\ nreq = 4
    /\ total_observations >= 4 * limit

\* C4: a loop ended by the ceiling has emitted a terminal message, as the
\* loops ended by a short page, an empty page or an error have.
C4_CeilingReported ==
    (pc = "loop_end" /\ exit = "ceiling") => report # "none"

\* C5: the pagination loop of fetch_month_data terminates whatever the
\* upstream answers.
C5_MonthFetchTerminates == <>(hpc = "returned")

\* the non-null values of a bag of values
NonNull(b) == { v \in BagToSet(b) : v # Null }

MinOf(S) == IF S = {} THEN Null ELSE CHOOSE v \in S : \A w \in S : v.n <= w.n

MaxOf(S) == IF S = {} THEN Null ELSE CHOOSE v \in S : \A w \in S : v.n >= w.n

RECURSIVE WeightedSum(_, _)
\* sum of the numbers of S, each counted as often as it is in bag b
WeightedSum(S, b) ==
    IF S = {} THEN 0
    ELSE LET v == CHOOSE x \in S : TRUE IN v.n * CopiesIn(v, b) + WeightedSum(S \ {v}, b)

\* C6: whatever the order and the pages in which a station's observations
\* arrive, its summary has their number as count, and the minimum, maximum
\* and sum of their non-null values.
C6_PrecipStatistics ==
    script = "precip" =>
        \A s \in DOMAIN station_info :
            /\ station_info[s].precipitation_observations = BagCardinality(gvals[s])
            /\ station_info[s].min_precipitation = MinOf(NonNull(gvals[s]))
            /\ station_info[s].max_precipitation = MaxOf(NonNull(gvals[s]))
            /\ station_info[s].total_precipitation_sample =
                  WeightedSum(NonNull(gvals[s]), gvals[s])

\* 7 arrived before 3, on an earlier page
C6_Witness ==
    /\ script = "precip"
    /\ nreq = 2
    /\ pc = "features"
    /\ remaining = limit - 1
    /\ lastF.val = Num(3)
    /\ "s1" \in DOMAIN station_info
    /\ gvals["s1"] = SetToBag({Num(3), Num(7)})
    /\ station_info["s1"].min_precipitation = Num(3)
    /\ station_info["s1"].max_precipitation = Num(7)
    /\ station_info["s1"].total_precipitation_sample = 10
    /\ station_info["s1"].precipitation_observations = 2

\* the entry of station s before its first sighting is the default
EntryOf(info, s) ==
    IF s \in DOMAIN info THEN info[s]
    ELSE IF script = "wind" THEN WindDefault ELSE PrecipDefault

\* the running minimum, maximum and sum of a summary
Extremes(e) ==
    IF script = "wind"
    THEN <<e.min_wind_speed_recorded, e.max_wind_speed_recorded, 0>>
    ELSE <<e.min_precipitation, e.max_precipitation, e.total_precipitation_sample>>

\* the observation counters of a summary
Counters(e) ==
    IF script = "wind" THEN <<e.total_wind_observations, e.obs>>
    ELSE <<e.precipitation_observations>>

\* the counters of e with the one(s) of parameter p incremented
Incremented(e, p) ==
    IF script = "wind"
    THEN <<e.total_wind_observations + 1, [e.obs EXCEPT ![p] = @ + 1]>>
    ELSE <<e.precipitation_observations + 1>>

\* C7: folding an observation whose value is null adds one to the station's
\* observation counter and changes neither its min, max and sum nor any
\* other station's summary.
C7_NullValueFrame ==
    [][ (nfold' = nfold + 1 /\ lastOut' = "folded" /\ lastF'.val = Null) =>
           LET s == lastF'.sid
               p == IF script = "wind" THEN wind_parameters[pidx'] ELSE "acc_precip"
           IN  /\ Counters(station_info'[s]) = Incremented(EntryOf(station_info, s), p)
               /\ Extremes(station_info'[s]) = Extremes(EntryOf(station_info, s))
               /\ DOMAIN station_info' = DOMAIN station_info \cup {s}
               /\ \A t \in DOMAIN station_info : t # s => station_info'[t] = station_info[t]
      ]_vars

\* a null value folded into a station that has a minimum, beside another station
C7_Witness ==
    /\ lastOut = "folded"
    /\ lastF.val = Null
    /\ DOMAIN station_info = Stations
    /\ Extremes(station_info[lastF.sid])[1] = Num(3)
    /\ RunCount(station_info, lastF.sid) = 2

\* C8: a station's coordinates are those of its first feature that carries
\* geometry, null before any has, and no later feature changes them.
C8_FirstGeometryWins ==
    \A s \in DOMAIN station_info :
        IF firstGeo[s] = <<>>
        THEN station_info[s].latitude = Null /\ station_info[s].longitude = Null
        ELSE /\ station_info[s].latitude = Num(firstGeo[s][2])
             /\ station_info[s].longitude = Num(firstGeo[s][1])

\* geometry arrived after a feature without, and then other coordinates followed
C8_Witness ==
    /\ nfold = 3
    /\ lastOut = "folded"
    /\ lastF.sid = "s1"
    /\ lastF.geo = <<12, 56>>
    /\ firstGeo["s1"] = <<10, 55>>
    /\ station_info["s1"].latitude = Num(55)
    /\ station_info["s1"].longitude = Num(10)
    /\ RunCount(station_info, "s1") = 3

\* both folds have stopped
PermDone == Stopped(obsA, outA) /\ Stopped(obsB, outB)

\* none of the observations is malformed
WellFormed(obs) == \A i \in 1..Len(obs) : ~Malformed(obs[i].f)

\* C9 as stated: two orders of the same observations give the same summaries
\* in every field, coordinates included.
C9_OrderIndependent ==
    (PermDone /\ WellFormed(obsA)) => infoA = infoB

NoCoords(e) == [e EXCEPT !.latitude = Null, !.longitude = Null]

\* the coordinates of the first observation of station s in obs that has any
RECURSIVE FirstCoords(_, _)
FirstCoords(obs, s) ==
    IF obs = <<>> THEN <<>>
    ELSE IF Head(obs).f.sid = s /\ Head(obs).f.geo # <<>> THEN Head(obs).f.geo
    ELSE FirstCoords(Tail(obs), s)

CoordsAre(e, c) ==
    IF c = <<>> THEN e.latitude = Null /\ e.longitude = Null
    ELSE e.latitude = Num(c[2]) /\ e.longitude = Num(c[1])

\* C9 (amended): two orders of the same well-formed observations give the
\* same summaries in every field but latitude and longitude, which in each
\* order are those of the station's first observation that carries geometry.
C9_OrderIndependentButCoords ==
    (PermDone /\ WellFormed(obsA)) =>
        /\ DOMAIN infoA = DOMAIN infoB
        /\ \A s \in DOMAIN infoA :
              /\ NoCoords(infoA[s]) = NoCoords(infoB[s])
              /\ CoordsAre(infoA[s], FirstCoords(obsA, s))
              /\ CoordsAre(infoB[s], FirstCoords(obsB, s))

\* three well-formed observations whose two orders differ in the coordinates only
C9_Witness ==
    /\ PermDone
    /\ WellFormed(obsA)
    /\ Len(obsA) = 3
    /\ obsA # obsB
    /\ infoA # infoB
    /\ \A s \in DOMAIN infoA : RunCount(infoA, s) >= 1

\* C10: a malformed feature is skipped, and no exception escapes.
C10_MalformedSkipped ==
    (lastOut # "none" /\ Malformed(lastF)) => (lastOut = "skipped" /\ pc # "raised" /\ exc = "")

\* C11: when the request of one sunlight source fails, the stations
\* accumulated from the other source are still materialized to rows.
C11_SourceFailureKeepsSummaries ==
    (script = "sunlight" /\ pc = "done" /\ errPage > 0)
        => (DOMAIN station_info \subseteq DOMAIN rows /\ DOMAIN snapErr \subseteq DOMAIN rows)

\* the number of observations of sunlight source i counted in the summaries
RECURSIVE SunCount(_, _, _)
SunCount(info, S, i) ==
    IF S = {} THEN 0
    ELSE LET s == CHOOSE x \in S : TRUE IN
         (IF i = 1 THEN info[s].sunshine_observations ELSE info[s].radiation_observations)
         + SunCount(info, S \ {s}, i)

\* C15: a full answer for a sunlight parameter is followed by a request at
\* the offset advanced by limit, and in the end every observation the
\* upstream holds for the parameter is folded into the summaries.
C15_SunlightPagesAll ==
    (script = "sunlight" /\ pc \in {"details", "export"})
        => \A i \in 1..2 :
              /\ stotal[i] >= limit => (Len(sreqs[i]) >= 2 /\ sreqs[i][2] = limit)
              /\ SunCount(station_info, DOMAIN station_info, i) = stotal[i]

\* C20: in the sunlight script a station's coordinates are those of its first
\* observation, and no later observation changes them.
C20_SunCoordinatesKept ==
    script = "sunlight" =>
        \A s \in DOMAIN station_info :
            firstGeo[s] # <<>> =>
                /\ station_info[s].latitude = Num(firstGeo[s][2])
                /\ station_info[s].longitude = Num(firstGeo[s][1])

\* C14: in check_additional_stations an answer shorter than the limit ends
\* the offset loop, as an empty one does: every request that is followed by
\* another one was answered with a full page.
C14_ShortPageStopsCheck ==
    \A i \in 1..2 : \A k \in 1..Len(creqs[i]) :
        k < Len(creqs[i]) => creqs[i][k][2] = limit

\* summary e has everything summary d had: its coordinates, flags and counts
Keeps(e, d) ==
    /\ d.latitude # Null => (e.latitude = d.latitude /\ e.longitude = d.longitude)
    /\ IF script = "wind"
       THEN /\ d.wind_parameters \subseteq e.wind_parameters
            /\ \A p \in DOMAIN d.obs : e.obs[p] >= d.obs[p]
            /\ e.total_wind_observations >= d.total_wind_observations
       ELSE e.precipitation_observations >= d.precipitation_observations

\* C12: after a transport error in the pagination of one wind parameter the
\* failed parameter is not requested again, every parameter of
\* wind_parameters still gets its pagination, started at offset 0, before
\* the run goes on to the station details, and the summaries as they were
\* when the error occurred are kept.
C12_ErrorStopsOnlyThatParameter ==
    (script = "wind" /\ errPage > 0) =>
        /\ (pc = "loop_end" /\ exit = "error") => (nreq = errPage /\ station_info = snapErr)
        /\ pc = "loop_end" => (nreq >= 1 /\ reqs[1] = 0 /\ Len(reqs) = nreq)
        /\ (pc = "while" /\ nreq = 0) => offset = 0
        /\ pc \in {"details", "export", "done"} => pidx = Len(wind_parameters)
        /\ \A s \in DOMAIN snapErr :
              s \in DOMAIN station_info /\ Keeps(station_info[s], snapErr[s])

\* an error on the second page of one parameter, and a later parameter that
\* added observations and ended on a short page
C12_Witness ==
    /\ script = "wind"
    /\ pc = "done"
    /\ errPage = 2
    /\ exit = "short"
    /\ "s1" \in DOMAIN snapErr
    /\ station_info["s1"].total_wind_observations > snapErr["s1"].total_wind_observations
    /\ station_info["s1"].obs["mean_wind_dir_min0"] > 0

\* what the pagination writes of a summary: all but the station details
Statistics(e) == [e EXCEPT !.name = None, !.country = None, !.status = None]

\* C13: once the pagination of a selector has left FETCHING (short or empty
\* page, transport error, ceiling) no step requests a page of that selector
\* or changes what its pagination wrote, and the loop is back at its head
\* after a page only when that page was full.
C13_TerminalStates ==
    [][ /\ (exit # "fetching" /\ pidx' = pidx) =>
              /\ nreq' = nreq /\ reqs' = reqs /\ offset' = offset /\ exit' = exit
              /\ total_observations' = total_observations
              /\ DOMAIN station_info' = DOMAIN station_info
              /\ \A s \in DOMAIN station_info :
                    Statistics(station_info'[s]) = Statistics(station_info[s])
        /\ (pc' = "while" /\ nreq' > 0) => (exit' = "fetching" /\ pagelen' = limit)
        /\ (pc = "features" /\ remaining = 0 /\ pagelen = limit) =>
              (exit' = "fetching" /\ pc' = "while")
      ]_vars

\* a wind parameter ended by a transport error on its second page, with
\* the loop at the head of the next parameter
C13_Witness ==
    /\ script = "wind"
    /\ pc = "for"
    /\ exit = "error"
    /\ nreq = 2
    /\ pidx < Len(wind_parameters)
    /\ total_observations = limit

\* the same for fetch_month_data: after the break nothing is requested
HeatTerminal ==
    [][ /\ hpc = "returned" => (hpc' = hpc /\ hrecords' = hrecords /\ hoffset' = hoffset)
        /\ (hpc' = "while" /\ hrecords' # hrecords) => hrecords' - hrecords = hlimit
      ]_vars

RECURSIVE SumRunCount(_, _)
\* the sum of the stations' observation counters
SumRunCount(info, S) ==
    IF S = {} THEN 0
    ELSE LET s == CHOOSE x \in S : TRUE IN RunCount(info, s) + SumRunCount(info, S \ {s})

RECURSIVE SumObs(_, _)
\* the sum of the per-parameter counters of a wind summary
SumObs(obs, P) ==
    IF P = {} THEN 0
    ELSE LET p == CHOOSE x \in P : TRUE IN obs[p] + SumObs(obs, P \ {p})

\* C16: each station's counter is the number of its folded observations, the
\* counters add up to total_observations, and when the pages hold no
\* malformed record that is the number of observations iterated: each one
\* was counted once.
C16_CountersExact ==
    script \in {"precip", "wind"} =>
        /\ \A s \in DOMAIN station_info :
              /\ RunCount(station_info, s) = BagCardinality(gvals[s])
              /\ script = "wind" =>
                    SumObs(station_info[s].obs, DOMAIN station_info[s].obs)
                       = station_info[s].total_wind_observations
        /\ SumRunCount(station_info, DOMAIN station_info) = total_observations
        /\ ~malformedSeen => total_observations = nfold
        /\ (pc = "features" /\ nreq > 0 /\ ~malformedSeen) =>
              SumSelectorCount(DOMAIN station_info)
                 = (nreq - 1) * limit + (pagelen - remaining)

\* a finished precipitation run over two pages with both stations
C16_Witness ==
    /\ script = "precip"
    /\ pc = "done"
    /\ nreq = 2
    /\ DOMAIN station_info = Stations
    /\ total_observations = limit + 2
    /\ station_info["s2"].precipitation_observations = 2

\* the stations of which an observation has been folded
Folded == { s \in Stations : gvals[s] # EmptyBag }

\* C17: the summary mapping has an entry for exactly the station ids that
\* occurred in the observations fetched so far, whether or not any carried
\* geometry, so none is ever deleted, and the result has one row per entry.
C17_OneEntryPerStation ==
    script \in {"precip", "wind"} =>
        /\ DOMAIN station_info = stations_found
        /\ ~malformedSeen => DOMAIN station_info = Folded
        /\ pc = "done" => DOMAIN rows = DOMAIN station_info
        /\ pc # "done" => rows = EmptyInfo

\* a finished run with a row for a station that never had geometry
C17_Witness ==
    /\ script = "precip"
    /\ pc = "done"
    /\ DOMAIN rows = Stations
    /\ firstGeo["s1"] = <<>>
    /\ rows["s1"].latitude = Null
    /\ rows["s1"].precipitation_observations >= 2

\* value b is value a or lies below it
NotAbove(b, a) == b = a \/ (Comparable(b, a) /\ PyLt(b, a))

\* the first-seen and last-seen timestamps of a summary
Dates(e) ==
    IF script = "wind" THEN <<e.first_wind_date, e.last_wind_date>>
    ELSE <<e.first_precipitation_date, e.last_precipitation_date>>

\* the parameter flags of a summary
Flags(e) == IF script = "wind" THEN e.wind_parameters ELSE {}

\* summary e grew into summary f
Grew(e, f) ==
    /\ \A i \in 1..Len(Counters(e)) :
          IF i = 1 THEN Counters(f)[i] >= Counters(e)[i]
          ELSE \A p \in DOMAIN Counters(e)[i] : Counters(f)[i][p] >= Counters(e)[i][p]
    /\ Flags(e) \subseteq Flags(f)
    /\ Extremes(e)[1] # Null => NotAbove(Extremes(f)[1], Extremes(e)[1])
    /\ Extremes(e)[2] # Null => NotAbove(Extremes(e)[2], Extremes(f)[2])
    /\ Dates(e)[1] # Null => NotAbove(Dates(f)[1], Dates(e)[1])
    /\ Dates(e)[2] # Null => NotAbove(Dates(e)[2], Dates(f)[2])

\* C18: in every step of a run each station's counters and parameter flags
\* only grow, its min does not increase, its max does not decrease, its
\* first timestamp does not increase and its last does not decrease; a
\* field that has a value is never back at its initial value.
C18_Monotone ==
    [][ (script \in {"precip", "wind"}) =>
           (\A s \in DOMAIN station_info :
               s \in DOMAIN station_info' /\ Grew(station_info[s], station_info'[s]))
      ]_vars

\* a second page brought station s1 an earlier first date and a smaller
\* minimum than the first page had left
C18_Witness ==
    /\ script = "precip"
    /\ nreq = 2
    /\ lastOut = "folded"
    /\ lastF.val = Num(3)
    /\ lastF.frm = Str(<<1>>)
    /\ gvals["s1"] = SetToBag({Num(3)}) (+) [v \in {Num(7)} |-> limit]
    /\ station_info["s1"].first_precipitation_date = Str(<<1>>)
    /\ station_info["s1"].last_precipitation_date = Str(<<2>>)
    /\ station_info["s1"].min_precipitation = Num(3)
    /\ station_info["s1"].max_precipitation = Num(7)

\* C19: in the result a station whose entry the metadata step did not write
\* has 'Unknown' for name, country and status, and a station it wrote has
\* the metadata record's values.
C19_UnknownPlaceholder ==
    (script \in {"precip", "wind"} /\ pc = "done") =>
        \A s \in DOMAIN rows :
            IF station_info[s].name = None
            THEN /\ rows[s].name = "Unknown"
                 /\ rows[s].country = "Unknown"
                 /\ rows[s].status = "Unknown"
            ELSE /\ rows[s].name = "Name"
                 /\ rows[s].country = "DNK"
                 /\ rows[s].status = "Active"

\* the non-empty 'from' strings of the folded observations of station s
FromsOf(obs, out, s) ==
    { obs[i].f.frm : i \in { j \in 1..Len(out) :
                               /\ out[j] = "folded"
                               /\ obs[j].f.sid = s
                               /\ Truthy(obs[j].f.frm) } }

\* the number of folded observations of station s
FoldedOf(obs, out, s) ==
    Cardinality({ j \in 1..Len(out) : out[j] = "folded" /\ obs[j].f.sid = s })

\* the least and the greatest string of S in lexicographic order
LexMin(S) == IF S = {} THEN Null ELSE CHOOSE v \in S : \A w \in S : v = w \/ LexLess(v.s, w.s)

LexMax(S) == IF S = {} THEN Null ELSE CHOOSE v \in S : \A w \in S : v = w \/ LexLess(w.s, v.s)

\* the dates and the count of summary mapping info are those of the fold of obs
DatesAre(info, obs, out) ==
    \A s \in DOMAIN info :
        /\ FoldedOf(obs, out, s) > 0 =>
              /\ Dates(info[s])[1] = LexMin(FromsOf(obs, out, s))
              /\ Dates(info[s])[2] = LexMax(FromsOf(obs, out, s))
        /\ RunCount(info, s) = FoldedOf(obs, out, s)

\* C21: a station's first and last timestamp are the lexicographic minimum
\* and maximum of the non-empty 'from' strings of its folded observations,
\* in whatever order they arrive; an observation without 'from' is counted
\* and changes neither.
C21_LexicographicDates ==
    (PermDone /\ WellFormed(obsA)) =>
        /\ DatesAre(infoA, obsA, outA)
        /\ DatesAre(infoB, obsB, outB)
        /\ \A s \in DOMAIN infoA : s \in DOMAIN infoB /\ Dates(infoA[s]) = Dates(infoB[s])

\* "10" and "2" arrive in both orders, beside an observation without 'from'
C21_Witness ==
    /\ PermDone
    /\ script = "precip"
    /\ Len(obsA) = 3
    /\ obsA[1].f.frm = Str(<<2>>) /\ obsA[2].f.frm = Str(<<1, 0>>) /\ obsA[3].f.frm = Null
    /\ obsB[1].f.frm = Null /\ obsB[2].f.frm = Str(<<1, 0>>)
    /\ Dates(infoA["s1"]) = <<Str(<<1, 0>>), Str(<<2>>)>>
    /\ Dates(infoB["s1"]) = <<Str(<<1, 0>>), Str(<<2>>)>>
    /\ RunCount(infoA, "s2") = 1
    /\ Dates(infoA["s2"]) = <<Null, Null>>

\* the row the export builds of a summary
RowOf(e) == IF script = "wind" THEN WindRow(e) ELSE PrecipRow(e)

\* C22: when the station-metadata request fails, its handler leaves the
\* summaries as the aggregation left them and raises nothing, and the result
\* has one row per station with its counters, extremes and dates.
C22_MetadataFailureKeeps ==
    [][ (script \in {"precip", "wind"} /\ report' = "details_warning") =>
           /\ pc = "details" => (station_info' = station_info /\ pc' = "export")
           /\ exc' = ""
           /\ pc' # "raised"
           /\ pc' = "done" =>
                 /\ DOMAIN rows' = DOMAIN station_info'
                 /\ \A s \in DOMAIN rows' :
                       /\ rows'[s] = RowOf(station_info'[s])
                       /\ RunCount(station_info', s) = BagCardinality(gvals'[s])
                       /\ rows'[s].name = None
      ]_vars

\* a precipitation run that lost the metadata and wrote both stations
C22_Witness ==
    /\ script = "precip"
    /\ pc = "done"
    /\ report = "details_warning"
    /\ DOMAIN rows = Stations
    /\ rows["s1"].precipitation_observations = 2
    /\ rows["s1"].min_precipitation_mm = Num(3)
    /\ rows["s1"].max_precipitation_mm = Num(7)
    /\ rows["s1"].first_precipitation_date = Str(<<1>>)
    /\ rows["s1"].last_precipitation_date = Str(<<2>>)

\* C23 as stated, for an iteration with fetch outcome f, body b and sends pl:
\* no publish after a failed fetch, one publish of the payload after a
\* successful one
PublishesOnSuccess(f, b, pl) ==
    /\ f # "200" => pl = <<>>
    /\ f = "200" => (Len(pl) = 1 /\ pl[1][1] = ParseJson(b))

\* C23 as stated: every iteration that has reached the sleep published once
\* if its fetch succeeded and not at all if it failed.
C23_PublishPerFetch ==
    /\ kpc = "sleep" => PublishesOnSuccess(kfetch, kbody, kpayload)
    /\ \A i \in 1..Len(klog) : PublishesOnSuccess(klog[i][1], klog[i][2], klog[i][3])

\* the same, where a successful fetch is one that returned a value other
\* than None
PublishesOnData(f, b, pl) ==
    /\ (f # "200" \/ b = "null") => pl = <<>>
    /\ (f = "200" /\ b # "null") => (Len(pl) = 1 /\ pl[1][1] = ParseJson(b))

\* C23 (amended): an iteration whose fetch fails, or succeeds with the body
\* null, publishes nothing; one whose fetch succeeds with another body
\* publishes that payload once; and once the loop is entered no failed fetch
\* and no raising publish leaves it: publish is followed by sleep, sleep by
\* the next fetch.
C23_PublishPerPayload ==
    /\ kpc = "sleep" => (PublishesOnData(kfetch, kbody, kpayload) /\ ksent = Len(kpayload))
    /\ \A i \in 1..Len(klog) : PublishesOnData(klog[i][1], klog[i][2], klog[i][3])
    /\ kpc = "raised" => (kfetch = "none" /\ klog = <<>>)
    /\ kpc = "publish" => ENABLED KPublish
    /\ kpc = "sleep" => ENABLED KSleep
    /\ kpc = "fetch" => ENABLED KFetch

\* after a failed fetch and a publish that raised, an iteration published an
\* array
C23_Witness ==
    /\ kpc = "sleep"
    /\ Len(klog) = MaxLog
    /\ klog[1] = <<"exception", "", <<>>>>
    /\ klog[MaxLog] = <<"200", "object", <<<<"object", "send_raised">>>>>>
    /\ kfetch = "200"
    /\ kpayload = <<<<"array", "print_raised">>>>

\* the features with a value among those the successful requests returned
ColValued == SelectSeq(col_seen, LAMBDA e : e[2].val # Null)

\* C24: no collected row has a null value, and as long as no exception left
\* the function the rows are, in order and once each, the features with a
\* non-null value that the successful requests returned (0 included).
C24_CollectedRowsNonNull ==
    /\ \A i \in 1..Len(all_data) : all_data[i].value # Null
    /\ col_pc \in {"month", "return", "done"} =>
          /\ Len(all_data) = Len(ColValued)
          /\ \A i \in 1..Len(all_data) :
                /\ all_data[i].value = ColValued[i][2].val
                /\ all_data[i].timeObserved = ColValued[i][2].from
                /\ all_data[i].stationId = ColStations(script)[ColValued[i][1]][1]
                /\ all_data[i].stationName = ColStations(script)[ColValued[i][1]][2]

\* the function returned after the second station answered a month with a
\* null value, which was left out, followed by a 0, which was kept
C24_Witness ==
    /\ col_pc = "done"
    /\ Len(col_seen) = 2
    /\ col_seen[1][1] = NumColStations
    /\ col_seen[1][2].val = Null
    /\ col_seen[2][2].val = Num(0)
    /\ col_seen[2][2].from[2] = 2
    /\ Len(all_data) = 1
    /\ all_data[1].value = Num(0)

\* C25: a skipped record leaves the mapping and the counters as they were;
\* so after a run in which every record was skipped (none folded, none
\* raised) the mapping is still empty and nothing is counted.
C25_SkippedLeavesNoTrace ==
    (nfold >= 1 /\ pc # "raised" /\ \A s \in Stations : gvals[s] = EmptyBag)
        => (station_info = EmptyInfo /\ total_observations = 0)

\* C26: every summary, materialized to its output row, has the station_id
\* of its key and an observation count of at least 1.
C26_RowsKeyedAndCounted ==
    pc # "raised" =>
        \A s \in DOMAIN station_info :
            LET r == RowOf(station_info[s]) IN
            /\ r.station_id = s
            /\ (IF script = "wind" THEN r.total_wind_observations
                ELSE r.precipitation_observations) >= 1

\* C27: the requests of a selector are at the offsets 0, limit, 2*limit, ...
\* in this order, each once, all below max_offset, so there are at most
\* ceil(max_offset / limit) = 4 of them.
C27_OffsetsAscendByLimit ==
    script \in {"precip", "wind"} =>
        /\ \A k \in 1..Len(reqs) : reqs[k] = (k - 1) * limit /\ reqs[k] < max_offset
        /\ Len(reqs) <= (max_offset + limit - 1) \div limit
        /\ Len(reqs) <= 4
        /\ Len(reqs) = nreq

\* a selector whose four requests were all answered with full pages
C27_Witness ==
    /\ script = "wind"
    /\ pc = "loop_end"
    /\ exit = "ceiling"
    /\ reqs = <<0, limit, 2 * limit, 3 * limit>>

\* the summary of station s before a step, the default if it has none yet
WindBefore(s) == IF s \in DOMAIN station_info THEN station_info[s] ELSE WindDefault

\* the dates d1 are the dates d0 widened by the timestamp frm
Widened(d0, d1, frm) ==
    IF ~Truthy(frm) THEN d1 = d0
    ELSE /\ d1[1] = (IF ~Truthy(d0[1]) \/ LexLess(frm.s, d0[1].s) THEN frm ELSE d0[1])
         /\ d1[2] = (IF ~Truthy(d0[2]) \/ LexLess(d0[2].s, frm.s) THEN frm ELSE d0[2])

\* C28: in the wind script a step changes a station's max/min wind speed only
\* under a parameter whose id contains 'speed'; an observation folded under
\* mean_wind_dir or mean_wind_dir_min0 leaves both as they were, adds the
\* parameter flag, widens the first/last date and adds one to the parameter's
\* counter and to total_wind_observations.
C28_OnlySpeedMovesExtremes ==
    [][ (script = "wind") =>
           LET p == wind_parameters[pidx'] IN
           /\ (\E s \in DOMAIN station_info' :
                  \/ station_info'[s].max_wind_speed_recorded
                        # WindBefore(s).max_wind_speed_recorded
                  \/ station_info'[s].min_wind_speed_recorded
                        # WindBefore(s).min_wind_speed_recorded)
                 => HasSpeed(p)
           /\ (lastOut' = "folded" /\ p \in {"mean_wind_dir", "mean_wind_dir_min0"}) =>
                 (LET s == lastF'.sid
                      e0 == WindBefore(s)
                      e1 == station_info'[s]
                  IN  /\ e1.max_wind_speed_recorded = e0.max_wind_speed_recorded
                      /\ e1.min_wind_speed_recorded = e0.min_wind_speed_recorded
                      /\ e1.wind_parameters = e0.wind_parameters \cup {p}
                      /\ Widened(<<e0.first_wind_date, e0.last_wind_date>>,
                                 <<e1.first_wind_date, e1.last_wind_date>>, lastF'.frm)
                      /\ e1.obs[p] = e0.obs[p] + 1
                      /\ \A q \in DOMAIN e0.obs : q # p => e1.obs[q] = e0.obs[q]
                      /\ e1.total_wind_observations = e0.total_wind_observations + 1)
      ]_vars

\* station s1 had the speed 3 as its maximum when a direction observation
\* with the value 7 was folded, and station s2 got its dates from a
\* direction observation
C28_Witness ==
    /\ script = "wind"
    /\ pidx >= 1
    /\ wind_parameters[pidx] = "mean_wind_dir"
    /\ lastOut = "folded"
    /\ lastF.sid = "s1"
    /\ "s1" \in DOMAIN station_info
    /\ lastF.val = Num(7)
    /\ gvals["s1"] = SetToBag({Num(3), Num(7)})
    /\ station_info["s1"].max_wind_speed_recorded = Num(3)
    /\ station_info["s1"].obs["mean_wind_dir"] = 1
    /\ "s2" \in DOMAIN station_info
    /\ station_info["s2"].first_wind_date = Str(<<1>>)
    /\ station_info["s2"].max_wind_speed_recorded = Null

\* the number of non-null values in a bag of values
NonNullCount(b) == BagCardinality(b) - CopiesIn(Null, b)

\* C29: in the precipitation result the average of a station with at least
\* one non-null value is not null, also when all its values are 0, and is
\* the sum of its non-null values divided by their number.
C29_AverageOfNonNull ==
    (script = "precip" /\ pc = "done") =>
        \A s \in DOMAIN rows :
            NonNullCount(gvals[s]) >= 1 =>
                LET a == rows[s].avg_precipitation_mm IN
                /\ a # <<>>
                /\ a[1] * NonNullCount(gvals[s])
                      = WeightedSum(NonNull(gvals[s]), gvals[s]) * a[2]

\* the k-th month counted from September 2022
MonthAt(k) == <<2022 + ((k + 7) \div 12), ((k + 7) % 12) + 1>>

\* the records of the calls c[1..k], one call after the other
RECURSIVE Concatenated(_, _)
Concatenated(c, k) ==
    IF k = 0 THEN <<>>
    ELSE Concatenated(c, k - 1) \o [i \in 1..c[k][3] |-> <<c[k][1], c[k][2], i>>]

\* the calls whose records have been added to the combined list
Added == IF hapc = "save" THEN Len(hcalls) - 1 ELSE Len(hcalls)

\* C30: the calls of fetch_month_data are for the months from September 2022
\* on, one call a month in chronological order; unless save_to_csv raised,
\* the combined list is the concatenation of the records the calls returned,
\* failed and empty months included in the sequence of calls; and the
\* function returns after the 40 calls up to December 2025.
C30_EveryMonthOnceInOrder ==
    script = "heating_all" =>
        /\ \A k \in 1..Len(hcalls) : <<hcalls[k][1], hcalls[k][2]>> = MonthAt(k)
        /\ hapc # "raised" => all_combined_records = Concatenated(hcalls, Added)
        /\ hapc \in {"return", "done"} =>
              /\ Len(hcalls) = 40
              /\ { <<hcalls[k][1], hcalls[k][2]>> : k \in 1..Len(hcalls) } = Months
              /\ hcalls[Len(hcalls)][1] = 2025 /\ hcalls[Len(hcalls)][2] = 12

\* the function returned: the call for September 2022 returned the full
\* page it had fetched, October returned nothing, and the call for December
\* 2025 failed at its first request
C30_Witness ==
    /\ hapc = "done"
    /\ hcalls[1] = <<2022, 9, hlimit>>
    /\ hcalls[2] = <<2022, 10, 0>>
    /\ hpc = "error"
    /\ hoffset = 0
    /\ all_combined_records = <<<<2022, 9, 1>>, <<2022, 9, 2>>>>

====
